---- MODULE Spec2Model ----
(***************************************************************************)
(* mfd: deployment lifecycle over one working root.                        *)
(*                                                                         *)
(* The working root is modelled as the set of deployment directories (a    *)
(* function from directory name to the state of its contents) and the      *)
(* entry found at the name "active".  Names are sequences of one-character *)
(* strings so that Deployment.String and Parse are real conversions.       *)
(* Every command (Deploy, Rollback, Clean) is one step: a process runs one *)
(* command, synchronously, and exits.  SpecActivate alone takes activate   *)
(* apart into its filesystem calls, with other processes reading between   *)
(* them.                                                                   *)
(***************************************************************************)
EXTENDS Integers, Sequences, FiniteSets, TLC

VARIABLES dirs, active, now, seen, removed, log, input, output, pc

vars == <<dirs, active, now, seen, removed, log, input, output, pc>>

(***************************************************************************)
(* Bounds of the model.                                                    *)
(***************************************************************************)
\* number of distinct commit hashes that can be deployed
NumHashes == 4
\* the clock starts at StartTime and advances up to StartTime + MaxTicks
MaxTicks == 1
\* number of configured build commands
NumCommands == 2
\* number of calls a recorded run makes
MaxCalls == 3
\* number of directories in a working root a run starts from
MaxRootDirs == 5
\* number of directories in the working root of a run of the whole process
MaxMainDirs == 2
\* number of reads of the active entry made while activate is running
MaxReads == 2
\* number of Rollback calls made in a row
MaxRollbacks == 6
\* number of directories in the working root when two commands start together
MaxRaceDirs == 4

(***************************************************************************)
(* Program constants.                                                      *)
(***************************************************************************)
keepDeploymentsCount == 3
HashLen == 40
\* first clock reading of the model: a one-digit second whose successors
\* have two digits, so that numeric and textual order differ
StartTime == 9

HashChars == <<"a", "b", "c", "d", "e", "f">>
Hash(c) == [i \in 1..HashLen |-> c]
Hashes == {Hash(HashChars[i]) : i \in 1..NumHashes}
Times == StartTime..(StartTime + MaxTicks)
\* timestamps of the directories a working root can hold when a run starts
RootTimes == (StartTime - 1)..(StartTime + MaxTicks)
AllTimes == Times \cup RootTimes

(***************************************************************************)
(* Text: strconv.Atoi, fmt %d, strings.Split.                              *)
(***************************************************************************)
DigitChars == <<"0", "1", "2", "3", "4", "5", "6", "7", "8", "9">>
IsDigit(c) == \E i \in 1..10 : DigitChars[i] = c
DigitVal(c) == (CHOOSE i \in 1..10 : DigitChars[i] = c) - 1

RECURSIVE NatText(_)
NatText(n) == IF n < 10 THEN <<DigitChars[n + 1]>>
              ELSE NatText(n \div 10) \o <<DigitChars[(n % 10) + 1]>>

\* mutation of Itoa: the sign is not written
ItoaUnsigned(n) == IF n < 0 THEN NatText(0 - n) ELSE NatText(n)

\* fmt.Sprintf("%d", n)
Itoa(n) == IF n < 0 THEN <<"-">> \o NatText(0 - n) ELSE NatText(n)

RECURSIVE DigitsVal(_)
DigitsVal(s) == IF s = <<>> THEN 0
                ELSE 10 * DigitsVal(SubSeq(s, 1, Len(s) - 1)) + DigitVal(s[Len(s)])

AllDigits(s) == s # <<>> /\ \A i \in 1..Len(s) : IsDigit(s[i])

\* the digits of a number without its leading zeros
RECURSIVE StripZeros(_)
StripZeros(s) == IF Len(s) > 1 /\ s[1] = "0" THEN StripZeros(Tail(s)) ELSE s

\* a <= b for two digit sequences of the same length
RECURSIVE DigitsLeq(_, _)
DigitsLeq(a, b) ==
    IF a = <<>> THEN TRUE
    ELSE IF DigitVal(a[1]) # DigitVal(b[1]) THEN DigitVal(a[1]) < DigitVal(b[1])
    ELSE DigitsLeq(Tail(a), Tail(b))

\* the magnitudes of the largest and of the smallest int (64 bits)
MaxIntDigits == <<"9", "2", "2", "3", "3", "7", "2", "0", "3", "6",
                  "8", "5", "4", "7", "7", "5", "8", "0", "7">>
MinIntDigits == <<"9", "2", "2", "3", "3", "7", "2", "0", "3", "6",
                  "8", "5", "4", "7", "7", "5", "8", "0", "8">>

\* the value is within the range of int: strconv.ErrRange otherwise
InRange(negative, digits) ==
    LET d == StripZeros(digits) IN
    \/ Len(d) < Len(MaxIntDigits)
    \/ /\ Len(d) = Len(MaxIntDigits)
       /\ DigitsLeq(d, IF negative THEN MinIntDigits ELSE MaxIntDigits)

\* strconv.Atoi: an optional sign followed by at least one decimal digit, the
\* value within the range of int
Atoi(s) ==
    IF s # <<>> /\ s[1] \in {"+", "-"}
    THEN IF AllDigits(Tail(s)) /\ InRange(s[1] = "-", Tail(s))
         THEN [ok |-> TRUE,
               val |-> IF s[1] = "-" THEN 0 - DigitsVal(Tail(s)) ELSE DigitsVal(Tail(s))]
         ELSE [ok |-> FALSE, val |-> 0]
    ELSE IF AllDigits(s) /\ InRange(FALSE, s) THEN [ok |-> TRUE, val |-> DigitsVal(s)]
         ELSE [ok |-> FALSE, val |-> 0]

\* strings.Split(s, "_")
RECURSIVE SplitFrom(_, _, _)
SplitFrom(s, i, cur) ==
    IF i > Len(s) THEN <<cur>>
    ELSE IF s[i] = "_" THEN <<cur>> \o SplitFrom(s, i + 1, <<>>)
         ELSE SplitFrom(s, i + 1, Append(cur, s[i]))
Split(s) == SplitFrom(s, 1, <<>>)

(***************************************************************************)
(* package deployment                                                      *)
(***************************************************************************)
\* time.Time{}: the zero time.  Its Unix() is -62135596800, which is outside
\* the integers of the model checker: ZeroTime stands for it as a timestamp
\* and ZeroTimeUnixText is its decimal text
ZeroTime == 0 - 1000000
ZeroTimeUnixText == <<"-", "6", "2", "1", "3", "5", "5", "9", "6", "8", "0", "0">>

\* Deployment{}: the value returned next to an error
ZeroDeployment == [CreatedAt |-> ZeroTime, CommitHash |-> <<>>]

New(createdAt, commitHash) == [CreatedAt |-> createdAt, CommitHash |-> commitHash]

ErrInvalid == "invalid deployment"
ErrNotFound == "deployment not found"
ErrNoPreviousDeployment == "no previous deployment found"
ErrNotExist == "file does not exist"
NoErr == "nil"

\* mutation of ParseText: a commit hash longer than HashLen is accepted
ParseTextAtLeast(s) ==
    LET parts == Split(s) IN
    IF Len(parts) # 3 THEN [err |-> ErrInvalid, dep |-> ZeroDeployment]
    ELSE IF parts[1] # <<"m", "f", "d">> THEN [err |-> ErrInvalid, dep |-> ZeroDeployment]
    ELSE IF ~Atoi(parts[2]).ok THEN [err |-> ErrInvalid, dep |-> ZeroDeployment]
    ELSE IF Len(parts[3]) < HashLen THEN [err |-> ErrInvalid, dep |-> ZeroDeployment]
    ELSE [err |-> NoErr, dep |-> [CreatedAt |-> Atoi(parts[2]).val, CommitHash |-> parts[3]]]

\* Parse, computed on the text
ParseText(s) ==
    LET parts == Split(s) IN
    IF Len(parts) # 3 THEN [err |-> ErrInvalid, dep |-> ZeroDeployment]
    ELSE IF parts[1] # <<"m", "f", "d">> THEN [err |-> ErrInvalid, dep |-> ZeroDeployment]
    ELSE IF ~Atoi(parts[2]).ok THEN [err |-> ErrInvalid, dep |-> ZeroDeployment]
    ELSE IF Len(parts[3]) # HashLen THEN [err |-> ErrInvalid, dep |-> ZeroDeployment]
    ELSE [err |-> NoErr, dep |-> [CreatedAt |-> Atoi(parts[2]).val, CommitHash |-> parts[3]]]

\* Deployment.String, computed on the text
StringText(d) ==
    <<"m", "f", "d", "_">>
    \o (IF d.CreatedAt = ZeroTime THEN ZeroTimeUnixText ELSE Itoa(d.CreatedAt))
    \o <<"_">> \o d.CommitHash

\* Both conversions are tabulated once over the deployments and names of the
\* model, and computed on the text for any other argument.
StringTable ==
    [d \in {New(t, h) : t \in AllTimes, h \in Hashes} \cup {ZeroDeployment} |-> StringText(d)]

String(d) == IF d \in DOMAIN StringTable THEN StringTable[d] ELSE StringText(d)

ParseTable ==
    [n \in {StringText(New(t, h)) : t \in AllTimes, h \in Hashes} |-> ParseText(n)]

Parse(s) == IF s \in DOMAIN ParseTable THEN ParseTable[s] ELSE ParseText(s)

\* mutation of SortedOrders: the comparison is a.CreatedAt.Compare(b.CreatedAt)
RECURSIVE SortedOrdersAscending(_, _)
SortedOrdersAscending(deployments, I) ==
    IF I = {} THEN {<<>>}
    ELSE LET oldest == {i \in I : \A j \in I :
                            deployments[i].CreatedAt <= deployments[j].CreatedAt}
         IN UNION {{<<deployments[i]>> \o rest :
                        rest \in SortedOrdersAscending(deployments, I \ {i})} : i \in oldest}

\* the permutations of a sequence that the comparison b.CreatedAt.Compare(a.CreatedAt)
\* accepts as sorted; slices.SortFunc is not stable, so equal timestamps may
\* come out in any order
RECURSIVE SortedOrders(_, _)
SortedOrders(deployments, I) ==
    IF I = {} THEN {<<>>}
    ELSE LET newest == {i \in I : \A j \in I :
                            deployments[i].CreatedAt >= deployments[j].CreatedAt}
         IN UNION {{<<deployments[i]>> \o rest :
                        rest \in SortedOrders(deployments, I \ {i})} : i \in newest}

SortNewestToOldest(deployments) == SortedOrders(deployments, 1..Len(deployments))

\* mutation of FromFiles: entries that are not directories are not skipped
RECURSIVE FromFilesAnyEntry(_)
FromFilesAnyEntry(files) ==
    IF files = <<>> THEN <<>>
    ELSE LET file == Head(files) IN
         IF Parse(file.name).err # NoErr THEN FromFilesAnyEntry(Tail(files))
         ELSE <<Parse(file.name).dep>> \o FromFilesAnyEntry(Tail(files))

RECURSIVE FromFiles(_)
FromFiles(files) ==
    IF files = <<>> THEN <<>>
    ELSE LET file == Head(files) IN
         IF ~file.isDir THEN FromFiles(Tail(files))
         ELSE IF Parse(file.name).err # NoErr THEN FromFiles(Tail(files))
         ELSE <<Parse(file.name).dep>> \o FromFiles(Tail(files))

\* os.ReadDir("."): the entries of the working root
RECURSIVE SetToSeq(_)
SetToSeq(S) == IF S = {} THEN <<>>
               ELSE LET x == CHOOSE y \in S : TRUE IN <<x>> \o SetToSeq(S \ {x})

ReadDir(ds, act) ==
    SetToSeq({[name |-> n, isDir |-> TRUE] : n \in DOMAIN ds})
    \o (IF act.kind = "none" THEN <<>>
        ELSE <<[name |-> <<"a", "c", "t", "i", "v", "e">>, isDir |-> FALSE]>>)

\* deployment.List: the set of listings one call can return
List(ds, act) == SortNewestToOldest(FromFiles(ReadDir(ds, act)))

\* mutation of FindIndex: the last entry with the commit hash
FindIndexLast(deployments, commitHash) ==
    IF \E i \in 1..Len(deployments) : deployments[i].CommitHash = commitHash
    THEN CHOOSE i \in 1..Len(deployments) :
            /\ deployments[i].CommitHash = commitHash
            /\ \A j \in (i + 1)..Len(deployments) : deployments[j].CommitHash # commitHash
    ELSE 0

\* mutation of FindIndex: compares the canonical name with the commit hash
FindIndexByName(deployments, commitHash) ==
    IF \E i \in 1..Len(deployments) : String(deployments[i]) = commitHash
    THEN CHOOSE i \in 1..Len(deployments) : String(deployments[i]) = commitHash
    ELSE 0

\* index of the first entry with the commit hash, 0 when there is none
FindIndex(deployments, commitHash) ==
    IF \E i \in 1..Len(deployments) : deployments[i].CommitHash = commitHash
    THEN CHOOSE i \in 1..Len(deployments) :
            /\ deployments[i].CommitHash = commitHash
            /\ \A j \in 1..(i - 1) : deployments[j].CommitHash # commitHash
    ELSE 0

FindByCommitHash(deployments, commitHash) ==
    IF FindIndex(deployments, commitHash) = 0
    THEN [err |-> ErrNotFound, dep |-> ZeroDeployment]
    ELSE [err |-> NoErr, dep |-> deployments[FindIndex(deployments, commitHash)]]

(***************************************************************************)
(* package mfd: the client                                                 *)
(***************************************************************************)
activeDeploymentSymlinkName == <<"a", "c", "t", "i", "v", "e">>

NoEntry == [kind |-> "none", target |-> <<>>]
Symlink(target) == [kind |-> "symlink", target |-> target]
RegularFile == [kind |-> "file", target |-> <<>>]

\* errors of the filesystem and of the external tools
EIO == "input/output error"
EINVAL == "invalid argument"
EEXIST == "file exists"
ErrClone == "error cloning repository"
ErrCheckout == "error checking out commit"
ErrBuild == "error running build command"
ErrRestart == "error restarting systemd unit"

Ev(e, n, i) == [ev |-> e, name |-> n, i |-> i]

\* mutation of getActiveDeployment: a missing symlink is no error
getActiveDeploymentLenient(act) ==
    IF act.kind = "none" THEN [err |-> NoErr, dep |-> ZeroDeployment]
    ELSE IF act.kind # "symlink" THEN [err |-> EINVAL, dep |-> ZeroDeployment]
    ELSE Parse(act.target)

getActiveDeployment(act) ==
    IF act.kind = "none" THEN [err |-> ErrNotExist, dep |-> ZeroDeployment]
    ELSE IF act.kind # "symlink" THEN [err |-> EINVAL, dep |-> ZeroDeployment]
    ELSE Parse(act.target)

\* fault: the filesystem call of activate that fails, if any
ActivateFaults == {"none", "lstat", "remove", "symlink"}

\* mutation of activate: an existing entry is left in place
activateStale(act, dep, fault) ==
    IF fault = "lstat" THEN [err |-> EIO, active |-> act, failed |-> "lstat"]
    ELSE IF act.kind # "none" THEN [err |-> NoErr, active |-> act, failed |-> ""]
    ELSE IF fault = "symlink" THEN [err |-> EIO, active |-> NoEntry, failed |-> "symlink"]
    ELSE [err |-> NoErr, active |-> Symlink(String(dep)), failed |-> ""]

\* mutation of activate: only a symlink is removed, another kind of file stays
activateKeepFile(act, dep, fault) ==
    IF fault = "lstat" THEN [err |-> EIO, active |-> act, failed |-> "lstat"]
    ELSE IF act.kind = "file" THEN [err |-> NoErr, active |-> act, failed |-> ""]
    ELSE IF act.kind # "none" /\ fault = "remove"
         THEN [err |-> EIO, active |-> act, failed |-> "remove"]
    ELSE IF fault = "symlink" THEN [err |-> EIO, active |-> NoEntry, failed |-> "symlink"]
    ELSE [err |-> NoErr, active |-> Symlink(String(dep)), failed |-> ""]

\* mutation of activate: a name with nothing at it is an error
activateMustExist(act, dep, fault) ==
    IF fault = "lstat" THEN [err |-> EIO, active |-> act, failed |-> "lstat"]
    ELSE IF act.kind = "none" THEN [err |-> ErrNotExist, active |-> act, failed |-> "lstat"]
    ELSE IF fault = "remove" THEN [err |-> EIO, active |-> act, failed |-> "remove"]
    ELSE IF fault = "symlink" THEN [err |-> EIO, active |-> NoEntry, failed |-> "symlink"]
    ELSE [err |-> NoErr, active |-> Symlink(String(dep)), failed |-> ""]

\* mutation of activate: the error of os.Remove is dropped and the symlink
\* is created all the same
activateIgnoreRemove(act, dep, fault) ==
    IF fault = "lstat" THEN [err |-> EIO, active |-> act, failed |-> "lstat"]
    ELSE IF act.kind # "none" /\ fault = "remove"
         THEN [err |-> NoErr, active |-> Symlink(String(dep)), failed |-> "remove"]
    ELSE IF fault = "symlink" THEN [err |-> EIO, active |-> NoEntry, failed |-> "symlink"]
    ELSE [err |-> NoErr, active |-> Symlink(String(dep)), failed |-> ""]

\* os.Lstat of the name "active": ErrNotExist when nothing is there, another
\* error when the call itself fails
lstatActive(act, fault) ==
    IF fault = "lstat" THEN EIO
    ELSE IF act.kind = "none" THEN ErrNotExist
    ELSE NoErr

\* mutation of removeActive: the entry is left for the new symlink to replace
removeActiveKeep(act, fault) ==
    IF fault = "remove" THEN [err |-> EIO, active |-> act]
    ELSE [err |-> NoErr, active |-> act]

\* os.Remove(link.Name()): fails when the name is no longer there
removeActive(act, fault) ==
    IF fault = "remove" THEN [err |-> EIO, active |-> act]
    ELSE IF act.kind = "none" THEN [err |-> ErrNotExist, active |-> act]
    ELSE [err |-> NoErr, active |-> NoEntry]

\* os.Symlink(dep.String(), "active"): fails when the name is taken
symlinkActive(act, dep, fault) ==
    IF fault = "symlink" THEN [err |-> EIO, active |-> act]
    ELSE IF act.kind # "none" THEN [err |-> EEXIST, active |-> act]
    ELSE [err |-> NoErr, active |-> Symlink(String(dep))]

\* Client.activate run without interruption; failed: the filesystem call that
\* returned the error, "" when there is none
activate(act, dep, fault) ==
    LET l == lstatActive(act, fault) IN
    IF l # NoErr /\ l # ErrNotExist
    THEN [err |-> l, active |-> act, failed |-> "lstat"]
    ELSE LET r == IF l = NoErr THEN removeActive(act, fault)
                  ELSE [err |-> NoErr, active |-> act]
         IN IF r.err # NoErr
            THEN [err |-> r.err, active |-> r.active, failed |-> "remove"]
            ELSE LET s == symlinkActive(r.active, dep, fault)
                 IN [err |-> s.err, active |-> s.active,
                     failed |-> IF s.err # NoErr THEN "symlink" ELSE ""]

\* outcome of git.PlainClone and Checkout: "ok", or a failed clone, which
\* leaves nothing ("clone") or a partial directory ("clonePartial") behind,
\* or a failed checkout, which leaves the clone
fetch(ds, dep, outcome) ==
    IF String(dep) \in DOMAIN ds THEN [err |-> NoErr, dirs |-> ds]
    ELSE IF outcome = "clone" THEN [err |-> ErrClone, dirs |-> ds]
    ELSE IF outcome = "clonePartial"
         THEN [err |-> ErrClone, dirs |-> (String(dep) :> "cloned") @@ ds]
    ELSE IF outcome = "checkout"
         THEN [err |-> ErrCheckout, dirs |-> (String(dep) :> "cloned") @@ ds]
    ELSE [err |-> NoErr, dirs |-> (String(dep) :> "fetched") @@ ds]

\* mutation of buildFrom: the loop goes on after a command has failed and
\* the error of the first failure is returned at the end
RECURSIVE buildFromKeepGoing(_, _, _)
buildFromKeepGoing(dep, i, failAt) ==
    IF i > NumCommands
    THEN [err |-> IF failAt \in 1..NumCommands THEN ErrBuild ELSE NoErr,
          trace |-> <<>>,
          command |-> IF failAt \in 1..NumCommands THEN failAt ELSE 0]
    ELSE LET rest == buildFromKeepGoing(dep, i + 1, failAt)
         IN [err |-> rest.err, trace |-> <<Ev("run", String(dep), i)>> \o rest.trace,
             command |-> rest.command]

\* the loop of build from command i on.  failAt: the index of the build
\* command that exits non-zero, 0 for none; command: the index of the
\* command the returned error names ("error running build command %s"), 0
\* when there is no error; the name of a run event is cmd.Dir
RECURSIVE buildFrom(_, _, _)
buildFrom(dep, i, failAt) ==
    IF i > NumCommands THEN [err |-> NoErr, trace |-> <<>>, command |-> 0]
    ELSE IF i = failAt
         THEN [err |-> ErrBuild, trace |-> <<Ev("run", String(dep), i)>>, command |-> i]
    ELSE LET rest == buildFrom(dep, i + 1, failAt)
         IN [err |-> rest.err, trace |-> <<Ev("run", String(dep), i)>> \o rest.trace,
             command |-> rest.command]

build(ds, dep, failAt) ==
    LET r == buildFrom(dep, 1, failAt) IN
    [err |-> r.err, trace |-> r.trace, command |-> r.command,
     dirs |-> IF String(dep) \in DOMAIN ds
              THEN [ds EXCEPT ![String(dep)] = IF r.err = NoErr THEN "built" ELSE "failed"]
              ELSE ds]

\* unit: cfg.Systemd.Unit, "" when not configured; ok: systemctl exits zero
RestartInputs == {[unit |-> "", ok |-> TRUE],
                  [unit |-> "app.service", ok |-> TRUE],
                  [unit |-> "app.service", ok |-> FALSE]}

\* mutation of restart: systemctl is run whatever the configured unit is
restartAlways(unit, ok) ==
    [err |-> IF ok /\ unit # "" THEN NoErr ELSE ErrRestart,
     trace |-> <<Ev("restart", <<>>, 0), Ev("systemctl", <<>>, 0)>>,
     unit |-> unit]

restart(unit, ok) ==
    IF unit = "" THEN [err |-> NoErr, trace |-> <<Ev("restart", <<>>, 0)>>, unit |-> unit]
    ELSE [err |-> IF ok THEN NoErr ELSE ErrRestart,
          trace |-> <<Ev("restart", <<>>, 0), Ev("systemctl", <<>>, 0)>>,
          unit |-> unit]

\* mutation of cleanLoop: the active deployment is not skipped
RECURSIVE cleanLoopAll(_, _, _, _)
cleanLoopAll(ds, toRemove, activeDep, rmFail) ==
    IF toRemove = <<>> THEN [err |-> NoErr, dirs |-> ds, trace |-> <<>>]
    ELSE LET dep == Head(toRemove) IN
         IF rmFail = 1
         THEN [err |-> EIO, dirs |-> ds, trace |-> <<Ev("remove", String(dep), 0)>>]
         ELSE LET rest == cleanLoopAll([n \in DOMAIN ds \ {String(dep)} |-> ds[n]],
                                       Tail(toRemove), activeDep,
                                       IF rmFail = 0 THEN 0 ELSE rmFail - 1)
              IN [err |-> rest.err, dirs |-> rest.dirs,
                  trace |-> <<Ev("remove", String(dep), 0)>> \o rest.trace]

\* mutation of cleanLoop: after a deletion has failed the loop goes on with
\* the next entry and the error is returned at the end
RECURSIVE cleanLoopKeepGoing(_, _, _, _)
cleanLoopKeepGoing(ds, toRemove, activeDep, rmFail) ==
    IF toRemove = <<>> THEN [err |-> NoErr, dirs |-> ds, trace |-> <<>>]
    ELSE LET dep == Head(toRemove) IN
         IF String(dep) = String(activeDep)
         THEN cleanLoopKeepGoing(ds, Tail(toRemove), activeDep, rmFail)
         ELSE LET rest == cleanLoopKeepGoing(
                              IF rmFail = 1 THEN ds
                              ELSE [n \in DOMAIN ds \ {String(dep)} |-> ds[n]],
                              Tail(toRemove), activeDep,
                              IF rmFail = 0 THEN 0 ELSE rmFail - 1)
              IN [err |-> IF rmFail = 1 THEN EIO ELSE rest.err, dirs |-> rest.dirs,
                  trace |-> <<Ev("remove", String(dep), 0)>> \o rest.trace]

\* the loop of clean over deploymentsToRemove; rmFail counts down to the
\* os.RemoveAll call that fails (0: none fails)
RECURSIVE cleanLoop(_, _, _, _)
cleanLoop(ds, toRemove, activeDep, rmFail) ==
    IF toRemove = <<>> THEN [err |-> NoErr, dirs |-> ds, trace |-> <<>>]
    ELSE LET dep == Head(toRemove) IN
         IF String(dep) = String(activeDep)
         THEN cleanLoop(ds, Tail(toRemove), activeDep, rmFail)
         ELSE IF rmFail = 1
              THEN [err |-> EIO, dirs |-> ds, trace |-> <<Ev("remove", String(dep), 0)>>]
              ELSE LET rest == cleanLoop([n \in DOMAIN ds \ {String(dep)} |-> ds[n]],
                                         Tail(toRemove), activeDep,
                                         IF rmFail = 0 THEN 0 ELSE rmFail - 1)
                   IN [err |-> rest.err, dirs |-> rest.dirs,
                       trace |-> <<Ev("remove", String(dep), 0)>> \o rest.trace]

\* mutation of clean: the slice of deployments to remove starts one entry early
cleanOffByOne(ds, act, deps, listFail, rmFail) ==
    LET a == getActiveDeployment(act) IN
    IF a.err # NoErr /\ a.err # ErrNotExist
    THEN [err |-> a.err, dirs |-> ds, trace |-> <<>>]
    ELSE IF listFail THEN [err |-> EIO, dirs |-> ds, trace |-> <<>>]
    ELSE IF Len(deps) <= keepDeploymentsCount THEN [err |-> NoErr, dirs |-> ds, trace |-> <<>>]
    ELSE cleanLoop(ds, SubSeq(deps, keepDeploymentsCount, Len(deps)), a.dep, rmFail)

\* mutation of clean: every error of getActiveDeployment is taken to mean
\* that no deployment is active
cleanTolerant(ds, act, deps, listFail, rmFail) ==
    LET a == getActiveDeployment(act) IN
    IF listFail THEN [err |-> EIO, dirs |-> ds, trace |-> <<>>]
    ELSE IF Len(deps) <= keepDeploymentsCount THEN [err |-> NoErr, dirs |-> ds, trace |-> <<>>]
    ELSE cleanLoop(ds, SubSeq(deps, keepDeploymentsCount + 1, Len(deps)), a.dep, rmFail)

\* deps: the listing deployment.List returned; listFail: os.ReadDir failed
clean(ds, act, deps, listFail, rmFail) ==
    LET a == getActiveDeployment(act) IN
    IF a.err # NoErr /\ a.err # ErrNotExist
    THEN [err |-> a.err, dirs |-> ds, trace |-> <<>>]
    ELSE IF listFail THEN [err |-> EIO, dirs |-> ds, trace |-> <<>>]
    ELSE IF Len(deps) <= keepDeploymentsCount THEN [err |-> NoErr, dirs |-> ds, trace |-> <<>>]
    ELSE cleanLoop(ds, SubSeq(deps, keepDeploymentsCount + 1, Len(deps)), a.dep, rmFail)

\* slices.IndexFunc(deps, String() equal), 0 standing for -1
IndexOfDeployment(deps, dep) ==
    IF \E i \in 1..Len(deps) : String(deps[i]) = String(dep)
    THEN CHOOSE i \in 1..Len(deps) :
            /\ String(deps[i]) = String(dep)
            /\ \A j \in 1..(i - 1) : String(deps[j]) # String(dep)
    ELSE 0

\* number of the os.RemoveAll call of one clean that can be made to fail
MaxRemoveFault == 2

\* listFail: os.ReadDir fails; rmFail: the os.RemoveAll call that fails
CleanInputs == {[listFail |-> FALSE, rmFail |-> k] : k \in 0..MaxRemoveFault}
               \cup {[listFail |-> TRUE, rmFail |-> 0]}

(***************************************************************************)
(* package config                                                          *)
(* A configuration document is what toml.Decode makes of it: whether it    *)
(* decodes, the keys meta.Keys() reports, and which of the credentials     *)
(* have a value other than the empty string.                               *)
(***************************************************************************)
ErrMissingUsername == "username must be specified when using password authentication"
ErrTokenAndPassword == "cannot specify both password and token for authentication"
ErrMissingValues == "missing config values"
ErrDecode == "toml: cannot decode"
ErrReadingConfiguration == "error reading configuration"

ConfigKeys == {"repo.url", "repo.username", "repo.password", "repo.token",
               "build.commands"}
required == <<"repo.url", "build.commands">>

ZeroConfig == [Username |-> "", Password |-> "", Token |-> ""]
\* mfd.toml cannot be read
NoFile == [readable |-> FALSE, doc |-> [valid |-> FALSE, keys |-> {}, set |-> {}]]

\* conf after toml.Decode(data, &conf): a credential that is not set decodes
\* to the empty string
Decoded(doc) ==
    [Username |-> IF "repo.username" \in doc.set THEN "set" ELSE "",
     Password |-> IF "repo.password" \in doc.set THEN "set" ELSE "",
     Token |-> IF "repo.token" \in doc.set THEN "set" ELSE ""]

\* mutation of Read: the username is checked before the token
ReadUsernameFirst(doc) ==
    LET conf == Decoded(doc)
        Absent(key) == key \notin doc.keys
        missing == SelectSeq(required, Absent)
    IN
    IF ~doc.valid THEN [err |-> ErrDecode, missing |-> <<>>, cfg |-> ZeroConfig]
    ELSE IF Len(missing) > 0
    THEN [err |-> ErrMissingValues, missing |-> missing, cfg |-> ZeroConfig]
    ELSE IF conf.Password # "" /\ conf.Username = ""
    THEN [err |-> ErrMissingUsername, missing |-> <<>>, cfg |-> ZeroConfig]
    ELSE IF conf.Password # "" /\ conf.Token # ""
    THEN [err |-> ErrTokenAndPassword, missing |-> <<>>, cfg |-> ZeroConfig]
    ELSE [err |-> NoErr, missing |-> <<>>, cfg |-> conf]

\* config.Read; missing is the list of the required keys that are not
\* present, in the order of required, which the error message names
Read(doc) ==
    LET conf == Decoded(doc)
        Absent(key) == key \notin doc.keys
        missing == SelectSeq(required, Absent)
    IN
    IF ~doc.valid THEN [err |-> ErrDecode, missing |-> <<>>, cfg |-> ZeroConfig]
    ELSE IF Len(missing) > 0
    THEN [err |-> ErrMissingValues, missing |-> missing, cfg |-> ZeroConfig]
    ELSE IF conf.Password # "" /\ conf.Token # ""
    THEN [err |-> ErrTokenAndPassword, missing |-> <<>>, cfg |-> ZeroConfig]
    ELSE IF conf.Password # "" /\ conf.Username = ""
    THEN [err |-> ErrMissingUsername, missing |-> <<>>, cfg |-> ZeroConfig]
    ELSE [err |-> NoErr, missing |-> <<>>, cfg |-> conf]

\* config.ReadFile
ReadFile(file) ==
    IF ~file.readable THEN [err |-> ErrNotExist, missing |-> <<>>, cfg |-> ZeroConfig]
    ELSE Read(file.doc)

(***************************************************************************)
(* Client.Resolve                                                          *)
(* The repository at repo.url: whether it can be cloned, and the commit    *)
(* its HEAD and its branch main point to.                                  *)
(***************************************************************************)

HEAD == <<"H", "E", "A", "D">>
BranchMain == <<"m", "a", "i", "n">>
NoRemote == [reachable |-> FALSE, head |-> <<>>]

\* the commits of the repository
RemoteCommits == {Hash("a"), Hash("b")}

\* the revision is cloned into memory.NewStorage(): nothing is written to
\* the working root
Resolve(revision, remote) ==
    IF ~remote.reachable THEN [err |-> "error performing in-memory clone", hash |-> <<>>]
    ELSE IF revision \in {HEAD, BranchMain} THEN [err |-> NoErr, hash |-> remote.head]
    ELSE IF revision \in RemoteCommits THEN [err |-> NoErr, hash |-> revision]
    ELSE [err |-> "error resolving revision", hash |-> <<>>]

(***************************************************************************)
(* The commands: the outcomes one call can have on a working root          *)
(***************************************************************************)
\* what a call returns and leaves behind; deps is the listing that Rollback
\* and the clean command obtained; cmd is the build command the returned
\* error names, 0 when it names none; unit is cfg.Systemd.Unit as restart
\* read it, "-" when restart was not reached; fault is the filesystem call
\* of activate that failed, "" for none; lines is what List printed
Out(err, trace, ds, act, deps) ==
    [err |-> err, trace |-> trace, dirs |-> ds, active |-> act, deps |-> deps,
     cmd |-> 0, unit |-> "-", fault |-> "", lines |-> <<>>]

\* mutation of DeployHit: the retention sweep runs after the switch
DeployHitSweep(ds, act, dep) ==
    UNION {IF a.err # NoErr
           THEN {[Out(a.err, <<Ev("activate", String(dep), 0)>>, ds, a.active, <<>>)
                     EXCEPT !.fault = a.failed]}
           ELSE {LET c == clean(ds, a.active, cdeps, FALSE, 0)
                 IN Out(c.err, <<Ev("activate", String(dep), 0), Ev("clean", <<>>, 0)>>
                                   \o c.trace, c.dirs, a.active, <<>>)
                 : cdeps \in List(ds, a.active)}
           : a \in {activate(act, dep, fault) : fault \in ActivateFaults}}

DeployHit(ds, act, dep) ==
    UNION {IF a.err # NoErr
           THEN {[Out(a.err, <<Ev("activate", String(dep), 0)>>, ds, a.active, <<>>)
                     EXCEPT !.fault = a.failed]}
           ELSE {[Out(r.err, <<Ev("activate", String(dep), 0)>> \o r.trace,
                      ds, a.active, <<>>) EXCEPT !.unit = r.unit]
                 : r \in {restart(ri.unit, ri.ok) : ri \in RestartInputs}}
           : a \in {activate(act, dep, fault) : fault \in ActivateFaults}}

\* the last stage of a cache-miss Deploy
DeployClean(ds, act, t4) ==
    {Out(c.err, t4 \o <<Ev("clean", <<>>, 0)>> \o c.trace, c.dirs, act, <<>>)
     : c \in UNION {{clean(ds, act, cdeps, ci.listFail, ci.rmFail)
                     : cdeps \in List(ds, act)} : ci \in CleanInputs}}

\* mutation of DeployActivate: the retention sweep runs before the restart
DeployActivateSweepFirst(ds, act, dep, t2) ==
    LET t3 == t2 \o <<Ev("activate", String(dep), 0)>> IN
    UNION {IF a.err # NoErr
           THEN {Out(a.err, t3, ds, a.active, <<>>)}
           ELSE UNION {IF c.err # NoErr
                       THEN {c}
                       ELSE {Out(r.err, c.trace \o r.trace, c.dirs, a.active, <<>>)
                             : r \in {restart(ri.unit, ri.ok) : ri \in RestartInputs}}
                       : c \in DeployClean(ds, a.active, t3)}
           : a \in {activate(act, dep, fault) : fault \in ActivateFaults}}

\* mutation of DeployActivate: the retention sweep runs although the restart
\* failed, and the error of the restart is returned after it
DeployActivateSweepAlways(ds, act, dep, t2) ==
    LET t3 == t2 \o <<Ev("activate", String(dep), 0)>> IN
    UNION {IF a.err # NoErr
           THEN {Out(a.err, t3, ds, a.active, <<>>)}
           ELSE UNION {IF r.err # NoErr
                       THEN {[c EXCEPT !.err = r.err]
                             : c \in DeployClean(ds, a.active, t3 \o r.trace)}
                       ELSE DeployClean(ds, a.active, t3 \o r.trace)
                       : r \in {restart(ri.unit, ri.ok) : ri \in RestartInputs}}
           : a \in {activate(act, dep, fault) : fault \in ActivateFaults}}

\* the stages of a cache-miss Deploy after a successful build
DeployActivate(ds, act, dep, t2) ==
    LET t3 == t2 \o <<Ev("activate", String(dep), 0)>> IN
    UNION {IF a.err # NoErr
           THEN {[Out(a.err, t3, ds, a.active, <<>>) EXCEPT !.fault = a.failed]}
           ELSE UNION {IF r.err # NoErr
                       THEN {[Out(r.err, t3 \o r.trace, ds, a.active, <<>>)
                                 EXCEPT !.unit = r.unit]}
                       ELSE {[o EXCEPT !.unit = r.unit]
                             : o \in DeployClean(ds, a.active, t3 \o r.trace)}
                       : r \in {restart(ri.unit, ri.ok) : ri \in RestartInputs}}
           : a \in {activate(act, dep, fault) : fault \in ActivateFaults}}

DeployMiss(ds, act, t, h) ==
    LET dep == New(t, h)
        t1 == <<Ev("fetch", String(dep), 0)>>
    IN UNION {IF f.err # NoErr
              THEN {Out(f.err, t1, f.dirs, act, <<>>)}
              ELSE UNION {IF b.err # NoErr
                          THEN {[Out(b.err, t1 \o b.trace, b.dirs, act, <<>>)
                                    EXCEPT !.cmd = b.command]}
                          ELSE DeployActivate(b.dirs, act, dep, t1 \o b.trace)
                          : b \in {build(f.dirs, dep, failAt) : failAt \in 0..NumCommands}}
              : f \in {fetch(ds, dep, outcome) : outcome \in {"ok", "clone", "clonePartial", "checkout"}}}

\* Client.Deploy(h) called at clock reading t
DeployOutcomes(ds, act, t, h) ==
    {Out(EIO, <<>>, ds, act, <<>>)}
    \cup UNION {IF found.err = NoErr
                THEN DeployHit(ds, act, found.dep)
                ELSE DeployMiss(ds, act, t, h)
                : found \in {FindByCommitHash(deps, h) : deps \in List(ds, act)}}

\* mutation of PrevIndex: steps over the previous deployment
PrevIndexSkip(activeIndex) == activeIndex + 2

\* prevIndex := activeIndex + 1
PrevIndex(activeIndex) == activeIndex + 1

\* mutation of RollbackActivate: the service is restarted after the switch
RollbackActivateRestart(ds, act, dep, deps) ==
    UNION {LET a == activate(act, dep, fault) IN
           IF a.err # NoErr
           THEN {Out(a.err, <<Ev("activate", String(dep), 0)>>, ds, a.active, deps)}
           ELSE {Out(r.err, <<Ev("activate", String(dep), 0)>> \o r.trace,
                     ds, a.active, deps)
                 : r \in {restart(ri.unit, ri.ok) : ri \in RestartInputs}}
           : fault \in ActivateFaults}

\* the last stage of Rollback: return c.activate(deps[prevIndex])
RollbackActivate(ds, act, dep, deps) ==
    {LET a == activate(act, dep, fault)
     IN [Out(a.err, <<Ev("activate", String(dep), 0)>>, ds, a.active, deps)
            EXCEPT !.fault = a.failed]
     : fault \in ActivateFaults}

\* Client.Rollback
RollbackOutcomes(ds, act) ==
    LET a == getActiveDeployment(act) IN
    IF a.err # NoErr THEN {Out(a.err, <<>>, ds, act, <<>>)}
    ELSE {Out(EIO, <<>>, ds, act, <<>>)}
         \cup UNION {LET activeIndex == IndexOfDeployment(deps, a.dep)
                         prevIndex == PrevIndex(activeIndex)
                     IN IF activeIndex = 0
                        THEN {Out(ErrNotFound, <<>>, ds, act, deps)}
                        ELSE IF prevIndex > Len(deps)
                        THEN {Out(ErrNoPreviousDeployment, <<>>, ds, act, deps)}
                        ELSE RollbackActivate(ds, act, deps[prevIndex], deps)
                     : deps \in List(ds, act)}

\* the clean command: Client.clean run on its own
CleanOutcomes(ds, act) ==
    UNION {{LET c == clean(ds, act, deps, ci.listFail, ci.rmFail)
            IN Out(c.err, <<Ev("clean", <<>>, 0)>> \o c.trace, c.dirs, act, deps)
            : deps \in List(ds, act)} : ci \in CleanInputs}

\* the restart command: restart run on its own
RestartOutcomes(ds, act) ==
    {[Out(r.err, r.trace, ds, act, <<>>) EXCEPT !.unit = r.unit]
     : r \in {restart(ri.unit, ri.ok) : ri \in RestartInputs}}

\* mutation of ListLines: an entry is marked when its commit hash is the one
\* of the active deployment
ListLinesByHash(deps, activeDep) ==
    [i \in 1..Len(deps) |->
        [hash |-> deps[i].CommitHash,
         active |-> deps[i].CommitHash = activeDep.CommitHash]]

\* the lines Client.List prints, one for each deployment of the listing:
\* the commit hash, followed by " (active)" when active is TRUE
ListLines(deps, activeDep) ==
    [i \in 1..Len(deps) |->
        [hash |-> deps[i].CommitHash,
         active |-> String(deps[i]) = String(activeDep)]]

\* Client.List
ListOutcomes(ds, act) ==
    {Out(EIO, <<>>, ds, act, <<>>)}
    \cup {LET a == getActiveDeployment(act) IN
          IF a.err # NoErr /\ a.err # ErrNotExist
          THEN Out(a.err, <<>>, ds, act, deps)
          ELSE [Out(NoErr, <<>>, ds, act, deps) EXCEPT !.lines = ListLines(deps, a.dep)]
          : deps \in List(ds, act)}

(***************************************************************************)
(* State and steps                                                         *)
(*   dirs     the deployment directories: name -> state of the contents    *)
(*   active   the entry at the name "active"                               *)
(*   now      the wall clock, in seconds                                   *)
(*   seen     how many of the hashes have been passed to Deploy            *)
(*   removed  the directories the last command deleted                     *)
(*   log      the calls of a recorded run                                  *)
(*   input    the arguments of a call of one function on its own (package  *)
(*            deployment, config.Read) or of the process (main), output    *)
(*            its results                                                  *)
(*   pc       the position of a process that runs activate call by call    *)
(***************************************************************************)
EmptyRoot == [n \in {} |-> "built"]

\* no function of package deployment is called on its own
NoInput == [fn |-> "none", segs |-> <<>>, text |-> <<>>, dep |-> ZeroDeployment,
            list |-> <<>>, files |-> <<>>, hash |-> <<>>,
            doc |-> NoFile.doc, args |-> <<>>, file |-> NoFile, remote |-> NoRemote]
NoOutput == [done |-> FALSE, err |-> NoErr, dep |-> ZeroDeployment,
             list |-> <<>>, text |-> <<>>,
             missing |-> <<>>, cfg |-> ZeroConfig,
             code |-> 0, stdout |-> <<>>, called |-> ""]

\* no process is inside activate
NoProcess == [at |-> "none", dep |-> ZeroDeployment, removed |-> FALSE,
              err |-> NoErr, before |-> NoEntry]

HashIndex(h) == CHOOSE i \in 1..NumHashes : Hash(HashChars[i]) = h

\* the record of one call: its arguments, what it found at the name
\* "active", what it returned and the steps it took
Call(op, h, o) ==
    [op |-> op, h |-> h, err |-> o.err, trace |-> o.trace, deps |-> o.deps,
     cmd |-> o.cmd, unit |-> o.unit, fault |-> o.fault, lines |-> o.lines,
     before |-> active]

\* one command run to its end; limit: the number of calls the run records,
\* 0 for a run that keeps no log
Run(op, h, outcomes, limit) ==
    IF limit = 0
    THEN /\ \E fs \in {<<o.dirs, o.active>> : o \in outcomes} :
                /\ dirs' = fs[1]
                /\ active' = fs[2]
                /\ removed' = DOMAIN dirs \ DOMAIN fs[1]
         /\ UNCHANGED log
    ELSE /\ Len(log) < limit
         /\ \E o \in outcomes :
                /\ dirs' = o.dirs
                /\ active' = o.active
                /\ removed' = DOMAIN dirs \ DOMAIN o.dirs
                /\ log' = Append(log, Call(op, h, o))

\* hashes are named in the order of their first deployment
DeployCmd(h, limit) ==
    /\ HashIndex(h) <= seen + 1
    /\ seen' = IF HashIndex(h) > seen THEN HashIndex(h) ELSE seen
    /\ Run("deploy", h, DeployOutcomes(dirs, active, now, h), limit)
    /\ UNCHANGED <<now, input, output, pc>>

RollbackCmd(limit) ==
    /\ Run("rollback", <<>>, RollbackOutcomes(dirs, active), limit)
    /\ UNCHANGED <<now, seen, input, output, pc>>

CleanCmd(limit) ==
    /\ Run("clean", <<>>, CleanOutcomes(dirs, active), limit)
    /\ UNCHANGED <<now, seen, input, output, pc>>

\* the wall clock advances between commands
Tick ==
    /\ now < StartTime + MaxTicks
    /\ now' = now + 1
    /\ UNCHANGED <<dirs, active, seen, removed, log, input, output, pc>>

Init ==
    /\ dirs = EmptyRoot
    /\ active = NoEntry
    /\ now = StartTime
    /\ seen = 0
    /\ removed = {}
    /\ log = <<>>
    /\ pc = NoProcess
    /\ input = NoInput
    /\ output = NoOutput

(***************************************************************************)
(* Spec: any sequence of commands on a working root that starts empty.     *)
(***************************************************************************)
Deploy(h) == DeployCmd(h, 0)
Rollback == RollbackCmd(0)
Clean == CleanCmd(0)

Next ==
    \/ Tick
    \/ \E h \in Hashes : Deploy(h)
    \/ Rollback
    \/ Clean

Spec == Init /\ [][Next]_vars

(***************************************************************************)
(* SpecCalls: the first MaxCalls commands on an empty working root, each   *)
(* call recorded with its result and the stages it ran.                    *)
(***************************************************************************)

NextCalls ==
    \/ Tick
    \/ \E h \in Hashes : DeployCmd(h, MaxCalls)
    \/ RollbackCmd(MaxCalls)
    \/ CleanCmd(MaxCalls)

SpecCalls == Init /\ [][NextCalls]_vars

(***************************************************************************)
(* SpecRoot: one recorded command on any working root of the bounded       *)
(* family Roots: the process reads whatever the working directory holds.   *)
(***************************************************************************)
RootHashes == {Hash("a"), Hash("b")}
RootNames == {String(New(t, h)) : t \in RootTimes, h \in RootHashes}

\* a symlink target that is not a deployment identity
GarbageTarget == <<"t", "m", "p">>

RootActives ==
    {NoEntry, RegularFile, Symlink(GarbageTarget)} \cup {Symlink(n) : n \in RootNames}

InitRoot ==
    /\ \E names \in SUBSET RootNames :
          /\ Cardinality(names) <= MaxRootDirs
          /\ dirs = [n \in names |-> "built"]
    /\ active \in RootActives
    /\ now = StartTime
    /\ seen = Cardinality(RootHashes)
    /\ removed = {}
    /\ log = <<>>
    /\ pc = NoProcess
    /\ input = NoInput
    /\ output = NoOutput

\* the commands that leave the working root as it is
RootList ==
    /\ Run("list", <<>>, ListOutcomes(dirs, active), 1)
    /\ UNCHANGED <<now, seen, input, output, pc>>

RootRestart ==
    /\ Run("restart", <<>>, RestartOutcomes(dirs, active), 1)
    /\ UNCHANGED <<now, seen, input, output, pc>>

NextRoot ==
    \/ Tick
    \/ \E h \in Hashes : DeployCmd(h, 1)
    \/ RollbackCmd(1)
    \/ CleanCmd(1)
    \/ RootList
    \/ RootRestart

SpecRoot == InitRoot /\ [][NextRoot]_vars

(***************************************************************************)
(* SpecDeployment: one call of one function of package deployment, its     *)
(* arguments drawn from bounded sets.                                      *)
(***************************************************************************)
\* longest list of deployments and of directory entries passed to a function
MaxListLen == 3
MaxFiles == 3

Chars(n, c) == [i \in 1..n |-> c]

\* texts for segment 0 of a name
PrefixTexts == {<<"m", "f", "d">>, <<"m", "f", "x">>, <<"M", "F", "D">>, <<>>}

\* texts that strconv.Atoi converts, with their values
IntValues ==
    (<<"9">> :> 9) @@ (<<"1", "0">> :> 10) @@ (<<"0">> :> 0)
    @@ (<<"-", "5">> :> (0 - 5)) @@ (<<"+", "7">> :> 7) @@ (<<"0", "0", "7">> :> 7)

\* texts that strconv.Atoi rejects: no digit, a character that is no digit,
\* a value outside the range of int
NonIntTexts ==
    {<<>>, <<"x">>, <<"1", "a">>, <<"-">>, <<"+">>, <<"9", ".", "5">>, <<" ", "9">>,
     <<"-", "-", "5">>, Chars(20, "9"), MinIntDigits}

\* texts for the commit hash: HashLen characters that are or are not
\* hexadecimal digits, and other lengths
MixedHash == [i \in 1..HashLen |-> IF i % 2 = 0 THEN "!" ELSE "Z"]
HashTexts ==
    {Hash("a"), MixedHash, Chars(HashLen - 1, "a"), Chars(HashLen + 1, "a"), <<>>}

\* a text of HashLen characters one of which is the separator of a name
UnderscoreHash == [i \in 1..HashLen |-> IF i = 20 THEN "_" ELSE "b"]

\* lists of segments without the separator
SegmentLists ==
    {<<a>> : a \in PrefixTexts \cup {Hash("a")}}
    \cup {<<a, b>> : a \in PrefixTexts, b \in DOMAIN IntValues \cup NonIntTexts}
    \cup {<<a, b, c>> : a \in PrefixTexts, b \in DOMAIN IntValues \cup NonIntTexts,
                        c \in HashTexts}
    \cup {<<a, b, c, d>> : a \in PrefixTexts, b \in DOMAIN IntValues \cup NonIntTexts,
                           c \in {Hash("a")}, d \in {<<>>, <<"x">>}}

\* strings.Join(segs, "_")
RECURSIVE Join(_)
Join(segs) ==
    IF Len(segs) = 1 THEN segs[1]
    ELSE segs[1] \o <<"_">> \o Join(Tail(segs))

\* timestamps and deployments passed to the functions
CallTimes == {0 - 5, 0, StartTime, StartTime + 1, 1700000000}
CallDeployments ==
    {New(t, h) : t \in CallTimes, h \in {Hash("a"), MixedHash, UnderscoreHash}}
ListDeployments ==
    {New(t, h) : t \in {0 - 5, StartTime, StartTime + 1}, h \in {Hash("a"), Hash("b")}}

RECURSIVE SeqsUpTo(_, _)
SeqsUpTo(S, n) ==
    IF n = 0 THEN {<<>>}
    ELSE SeqsUpTo(S, n - 1)
         \cup {Append(q, x) : q \in {r \in SeqsUpTo(S, n - 1) : Len(r) = n - 1}, x \in S}

\* directory entries: names that are and are not deployment identities
EntryNames ==
    {String(New(StartTime, Hash("a"))), String(New(StartTime + 1, Hash("b"))),
     activeDeploymentSymlinkName, Join(<<<<"m", "f", "d">>, <<"x">>, Hash("a")>>),
     GarbageTarget}
Entries == {[name |-> n, isDir |-> d] : n \in EntryNames, d \in BOOLEAN}

\* what os.ReadDir can return: every name once
Listings ==
    {fs \in SeqsUpTo(Entries, MaxFiles) :
        \A i \in 1..Len(fs) : \A j \in 1..Len(fs) : fs[i].name = fs[j].name => i = j}

InitDeployment ==
    /\ dirs = EmptyRoot
    /\ active = NoEntry
    /\ now = StartTime
    /\ seen = 0
    /\ removed = {}
    /\ log = <<>>
    /\ pc = NoProcess
    /\ output = NoOutput
    /\ \/ \E segs \in SegmentLists :
              input = [NoInput EXCEPT !.fn = "Parse", !.segs = segs, !.text = Join(segs)]
       \/ \E d \in CallDeployments :
              input = [NoInput EXCEPT !.fn = "String", !.dep = d]
       \/ \E l \in SeqsUpTo(ListDeployments, MaxListLen) :
              input = [NoInput EXCEPT !.fn = "SortNewestToOldest", !.list = l]
       \/ \E fs \in Listings :
              input = [NoInput EXCEPT !.fn = "FromFiles", !.files = fs]
       \/ \E l \in SeqsUpTo(ListDeployments, MaxListLen) :
           \E h \in {Hash("a"), Hash("b"), Hash("c")} :
              input = [NoInput EXCEPT !.fn = "FindByCommitHash", !.list = l, !.hash = h]

Returns(fn) ==
    /\ input.fn = fn
    /\ ~output.done
    /\ UNCHANGED <<dirs, active, now, seen, removed, log, pc>>

\* Parse(s)
CallParse ==
    /\ Returns("Parse")
    /\ output' = [NoOutput EXCEPT !.done = TRUE, !.err = Parse(input.text).err,
                                  !.dep = Parse(input.text).dep]
    /\ UNCHANGED input

\* Parse(d.String())
CallStringParse ==
    /\ Returns("String")
    /\ output' = [NoOutput EXCEPT !.done = TRUE, !.text = String(input.dep),
                                  !.err = Parse(String(input.dep)).err,
                                  !.dep = Parse(String(input.dep)).dep]
    /\ UNCHANGED input

\* the slice of the caller after SortNewestToOldest: the function sorts
\* slices.Clone(deployments)
ArgumentAfterSort(deployments, sorted) == deployments

\* SortNewestToOldest(deployments)
CallSort ==
    /\ Returns("SortNewestToOldest")
    /\ \E sorted \in SortNewestToOldest(input.list) :
          /\ output' = [NoOutput EXCEPT !.done = TRUE, !.list = sorted]
          /\ input' = [input EXCEPT !.list = ArgumentAfterSort(input.list, sorted)]

\* FromFiles(files)
CallFromFiles ==
    /\ Returns("FromFiles")
    /\ output' = [NoOutput EXCEPT !.done = TRUE, !.list = FromFiles(input.files)]
    /\ UNCHANGED input

\* FindByCommitHash(deployments, commitHash)
CallFind ==
    /\ Returns("FindByCommitHash")
    /\ output' = [NoOutput EXCEPT !.done = TRUE,
                                  !.err = FindByCommitHash(input.list, input.hash).err,
                                  !.dep = FindByCommitHash(input.list, input.hash).dep]
    /\ UNCHANGED input

NextDeployment ==
    \/ CallParse
    \/ CallStringParse
    \/ CallSort
    \/ CallFromFiles
    \/ CallFind

SpecDeployment == InitDeployment /\ [][NextDeployment]_vars

TypeOK ==
    /\ DOMAIN dirs \subseteq {String(New(t, h)) : t \in AllTimes, h \in Hashes}
    /\ \A n \in DOMAIN dirs : dirs[n] \in {"cloned", "failed", "built"}
    /\ now \in Times
    /\ active.kind \in {"none", "symlink", "file"}
    /\ removed \subseteq {String(New(t, h)) : t \in AllTimes, h \in Hashes}
    /\ Len(log) <= MaxRollbacks
    /\ input.fn \in {"none", "Parse", "String", "SortNewestToOldest", "FromFiles",
                      "FindByCommitHash", "Read", "main", "Rollback",
                      "DeployRollback", "race"}
    /\ output.done \in BOOLEAN

(***************************************************************************)
(* SpecConfig: one call of config.Read on a configuration document.        *)
(***************************************************************************)
Docs ==
    UNION {{[valid |-> TRUE, keys |-> ks, set |-> st]
            : st \in SUBSET (ks \cap {"repo.username", "repo.password", "repo.token"})}
           : ks \in SUBSET ConfigKeys}
    \cup {[valid |-> FALSE, keys |-> ConfigKeys, set |-> {}]}

InitConfig ==
    /\ dirs = EmptyRoot
    /\ active = NoEntry
    /\ now = StartTime
    /\ seen = 0
    /\ removed = {}
    /\ log = <<>>
    /\ pc = NoProcess
    /\ output = NoOutput
    /\ \E d \in Docs : input = [NoInput EXCEPT !.fn = "Read", !.doc = d]

\* Read(data)
CallRead ==
    /\ Returns("Read")
    /\ output' = [NoOutput EXCEPT !.done = TRUE, !.err = Read(input.doc).err,
                                  !.missing = Read(input.doc).missing,
                                  !.cfg = Read(input.doc).cfg]
    /\ UNCHANGED input

SpecConfig == InitConfig /\ [][CallRead]_vars

(***************************************************************************)
(* SpecMain: one run of the process, from os.Args and mfd.toml to the exit *)
(* code.  stdout holds what main, run, usage and List print; the progress  *)
(* lines of the stages of a command are not kept.                          *)
(***************************************************************************)
Line(kind, rev, hash, err, mark) ==
    [kind |-> kind, rev |-> rev, hash |-> hash, err |-> err, active |-> mark]

\* the help text, taken as one block
usage == <<Line("usage", <<>>, <<>>, NoErr, FALSE)>>

\* mutation of Command: the switch has no case for rollback
CommandNoRollback(cmd) ==
    CASE cmd = "help" -> "usage"
      [] cmd \in {"ls", "list"} -> "List"
      [] cmd = "deploy" -> "Deploy"
      [] cmd = "resolve" -> "Resolve"
      [] cmd = "restart" -> "Restart"
      [] cmd = "clean" -> "Clean"
      [] OTHER -> "usage"

\* the switch of run: the function a command word is dispatched to
Command(cmd) ==
    CASE cmd = "help" -> "usage"
      [] cmd \in {"ls", "list"} -> "List"
      [] cmd = "deploy" -> "Deploy"
      [] cmd = "rollback" -> "Rollback"
      [] cmd = "resolve" -> "Resolve"
      [] cmd = "restart" -> "Restart"
      [] cmd = "clean" -> "Clean"
      [] OTHER -> "usage"

\* revision := "HEAD"; if len(args) > 1 { revision = args[1] }
Revision(args) == IF Len(args) > 1 THEN args[2] ELSE HEAD

\* mutation of DeployArgument: the revision as typed is what is deployed
DeployArgumentRevision(revision, commitHash) == revision

\* the argument of client.Deploy in the deploy case
DeployArgument(revision, commitHash) == commitHash

\* what one run of run() returned, printed and left on disk
Ran(called, o, lines) ==
    [called |-> called, err |-> o.err, dirs |-> o.dirs, active |-> o.active,
     stdout |-> lines]

\* resolved: fmt.Printf("Resolved %s to %s\n", revision, commitHash)
run(args, file, remote, ds, act, t) ==
    LET none == Out(NoErr, <<>>, ds, act, <<>>)
        failed(e) == Out(e, <<>>, ds, act, <<>>)
        resolved(h) == <<Line("resolved", Revision(args), h, NoErr, FALSE)>>
        entries(lines) ==
            [i \in 1..Len(lines) |->
                Line("entry", <<>>, lines[i].hash, NoErr, lines[i].active)]
    IN IF ReadFile(file).err # NoErr
       THEN {Ran("", failed(ErrReadingConfiguration), <<>>)}
       ELSE IF Len(args) = 0 THEN {Ran("usage", none, usage)}
       ELSE LET called == Command(args[1])
                r == Resolve(Revision(args), remote)
            IN CASE called = "usage" -> {Ran("usage", none, usage)}
                 [] called = "List" ->
                        {Ran("List", o, entries(o.lines)) : o \in ListOutcomes(ds, act)}
                 [] called = "Deploy" ->
                        IF r.err # NoErr THEN {Ran("Resolve", failed(r.err), <<>>)}
                        ELSE {Ran("Deploy", o, resolved(r.hash))
                              : o \in DeployOutcomes(ds, act, t,
                                           DeployArgument(Revision(args), r.hash))}
                 [] called = "Rollback" ->
                        {Ran("Rollback", o, <<>>) : o \in RollbackOutcomes(ds, act)}
                 [] called = "Resolve" ->
                        IF r.err # NoErr THEN {Ran("Resolve", failed(r.err), <<>>)}
                        ELSE {Ran("Resolve", none, resolved(r.hash))}
                 [] called = "Restart" ->
                        {Ran("Restart", o, <<>>) : o \in RestartOutcomes(ds, act)}
                 [] called = "Clean" ->
                        {Ran("Clean", o, <<>>) : o \in CleanOutcomes(ds, act)}

\* mutation of ExitCode: the process exits 0 whatever run returned
ExitCodeZero(err) == 0

\* code := 0; if err != nil { code = 1 }
ExitCode(err) == IF err # NoErr THEN 1 ELSE 0

\* the error of run is printed with fmt.Println, then os.Exit(code)
main ==
    /\ input.fn = "main"
    /\ ~output.done
    /\ \E x \in {<<r.dirs, r.active,
                    [NoOutput EXCEPT
                        !.done = TRUE, !.err = r.err, !.code = ExitCode(r.err),
                        !.called = r.called,
                        !.stdout = IF r.err # NoErr
                                   THEN r.stdout
                                        \o <<Line("error", <<>>, <<>>, r.err, FALSE)>>
                                   ELSE r.stdout]>>
                  : r \in run(input.args, input.file, input.remote, dirs, active, now)} :
          /\ dirs' = x[1]
          /\ active' = x[2]
          /\ removed' = DOMAIN dirs \ DOMAIN x[1]
          /\ output' = x[3]
    /\ UNCHANGED <<now, seen, log, input, pc>>

\* os.Args[1:]; the revisions typed are a symbolic name, a branch, a full
\* commit hash, and a name the repository does not have
MainArgs ==
    {<<>>, <<"help">>, <<"ls">>, <<"list">>, <<"deploy">>, <<"resolve">>,
     <<"rollback">>, <<"restart">>, <<"clean">>, <<"status">>}
    \cup {<<cmd, rev>> : cmd \in {"deploy", "resolve"},
                         rev \in {HEAD, BranchMain, Hash("a"), <<"v", "9">>}}

\* mfd.toml: absent, not decodable, without build.commands, complete
ConfigFiles ==
    {NoFile,
     [readable |-> TRUE, doc |-> [valid |-> FALSE, keys |-> ConfigKeys, set |-> {}]],
     [readable |-> TRUE, doc |-> [valid |-> TRUE, keys |-> {"repo.url"}, set |-> {}]],
     [readable |-> TRUE,
      doc |-> [valid |-> TRUE, keys |-> {"repo.url", "build.commands"}, set |-> {}]]}

InitMain ==
    /\ \E names \in SUBSET RootNames :
          /\ Cardinality(names) <= MaxMainDirs
          /\ dirs = [n \in names |-> "built"]
    /\ active \in RootActives
    /\ now = StartTime
    /\ seen = Cardinality(RootHashes)
    /\ removed = {}
    /\ log = <<>>
    /\ pc = NoProcess
    /\ output = NoOutput
    /\ \E args \in MainArgs, file \in ConfigFiles,
          remote \in {NoRemote}
                     \cup {[reachable |-> TRUE, head |-> h] : h \in RemoteCommits} :
          input = [NoInput EXCEPT !.fn = "main", !.args = args, !.file = file,
                                  !.remote = remote]

SpecMain == InitMain /\ [][main]_vars

(***************************************************************************)
(* SpecActivate: one process inside activate, one filesystem call at a     *)
(* step, while other commands read the active entry.  Each read is what    *)
(* List, clean and Rollback begin with: getActiveDeployment.               *)
(***************************************************************************)
\* whether the command returns the error of getActiveDeployment: Rollback
\* returns every error, List and clean all but os.ErrNotExist
ReaderFails(cmd, err) ==
    err # NoErr /\ (cmd = "rollback" \/ err # ErrNotExist)

InitActivate ==
    /\ dirs = [n \in RootNames |-> "built"]
    /\ active \in RootActives
    /\ now = StartTime
    /\ seen = Cardinality(RootHashes)
    /\ removed = {}
    /\ log = <<>>
    /\ input = NoInput
    /\ output = NoOutput
    /\ \E n \in RootNames :
          pc = [NoProcess EXCEPT !.at = "lstat", !.dep = Parse(n).dep, !.before = active]

\* link, err := os.Lstat(activeDeploymentSymlinkName)
ActivateLstat ==
    /\ pc.at = "lstat"
    /\ \E fault \in {"none", "lstat"} :
          LET l == lstatActive(active, fault) IN
          pc' = IF l = NoErr THEN [pc EXCEPT !.at = "remove"]
                ELSE IF l = ErrNotExist THEN [pc EXCEPT !.at = "symlink"]
                ELSE [pc EXCEPT !.at = "done", !.err = l]
    /\ UNCHANGED <<dirs, active, now, seen, removed, log, input, output>>

\* err = os.Remove(link.Name())
ActivateRemove ==
    /\ pc.at = "remove"
    /\ \E fault \in {"none", "remove"} :
          LET r == removeActive(active, fault) IN
          /\ active' = r.active
          /\ pc' = IF r.err # NoErr THEN [pc EXCEPT !.at = "done", !.err = r.err]
                    ELSE [pc EXCEPT !.at = "symlink", !.removed = TRUE]
    /\ UNCHANGED <<dirs, now, seen, removed, log, input, output>>

\* return os.Symlink(dep.String(), activeDeploymentSymlinkName)
ActivateSymlink ==
    /\ pc.at = "symlink"
    /\ \E fault \in {"none", "symlink"} :
          LET s == symlinkActive(active, pc.dep, fault) IN
          /\ active' = s.active
          /\ pc' = [pc EXCEPT !.at = "done", !.err = s.err]
    /\ UNCHANGED <<dirs, now, seen, removed, log, input, output>>

\* another process starts List, clean or Rollback
ReadActive(cmd) ==
    /\ Len(log) < MaxReads
    /\ LET r == getActiveDeployment(active) IN
       log' = Append(log, [op |-> cmd, at |-> pc.at, removed |-> pc.removed,
                           err |-> r.err, dep |-> r.dep,
                           fails |-> ReaderFails(cmd, r.err)])
    /\ UNCHANGED <<dirs, active, now, seen, removed, input, output, pc>>

NextActivate ==
    \/ ActivateLstat
    \/ ActivateRemove
    \/ ActivateSymlink
    \/ \E cmd \in {"list", "clean", "rollback"} : ReadActive(cmd)

SpecActivate == InitActivate /\ [][NextActivate]_vars

(***************************************************************************)
(* SpecRollbacks: Rollback called again and again on a working root of the *)
(* bounded family, nothing else running in between, up to the first call   *)
(* that fails.  The directories do not change, so deployment.List returns  *)
(* the same listing at every call: input.list, one of the orders the sort  *)
(* can produce.  In the runs "DeployRollback" one Deploy of a commit hash   *)
(* the root does not hold comes first and one Rollback follows it.          *)
(***************************************************************************)
InitRollbacks ==
    /\ \E names \in SUBSET RootNames :
          /\ Cardinality(names) <= MaxRootDirs
          /\ dirs = [n \in names |-> "built"]
    /\ active \in RootActives
    /\ now \in Times
    /\ seen = Cardinality(RootHashes)
    /\ removed = {}
    /\ log = <<>>
    /\ pc = NoProcess
    /\ output = NoOutput
    /\ \/ \E l \in List(dirs, active) :
              input = [NoInput EXCEPT !.fn = "Rollback", !.list = l]
       \/ input = [NoInput EXCEPT !.fn = "DeployRollback"]

DeployOnce ==
    /\ input.fn = "DeployRollback"
    /\ log = <<>>
    /\ DeployCmd(Hash(HashChars[seen + 1]), MaxRollbacks)

RollbackAgain ==
    /\ IF input.fn = "Rollback"
       THEN IF log = <<>> THEN TRUE ELSE log[Len(log)].err = NoErr
       ELSE IF Len(log) = 1 THEN log[1].err = NoErr ELSE FALSE
    /\ Run("rollback", <<>>,
           {o \in RollbackOutcomes(dirs, active) :
               input.fn = "Rollback" => o.deps \in {<<>>, input.list}},
           MaxRollbacks)
    /\ UNCHANGED <<now, seen, input, output, pc>>

SpecRollbacks == InitRollbacks /\ [][DeployOnce \/ RollbackAgain]_vars

(***************************************************************************)
(* SpecRace: two processes run a command each in the same working root,    *)
(* nothing ordering their filesystem calls: process 1 a Deploy, process 2  *)
(* a Deploy or a clean.  A step is one call of a process that reads or     *)
(* changes the working root.  No call fails on its own account; restart    *)
(* touches nothing in the working root and is not a step.                  *)
(*   pc[p].at      where process p is                                      *)
(*   pc[p].path    "hit" or "miss" once Deploy has looked for its hash      *)
(*   pc[p].i       the next build command                                  *)
(*   pc[p].act     the active deployment clean has read                    *)
(*   pc[p].todo    deploymentsToRemove, what is left of it                 *)
(*   pc[p].deleted the names clean has removed                             *)
(*   pc[p].called  the stages entered; pc[p].stage the one that failed     *)
(***************************************************************************)
Proc(cmd, h) ==
    [cmd |-> cmd, h |-> h, at |-> IF cmd = "clean" THEN "cleanRead" ELSE "list",
     path |-> "", dep |-> ZeroDeployment, i |-> 0, act |-> ZeroDeployment,
     todo |-> <<>>, deleted |-> {}, called |-> {}, err |-> NoErr, stage |-> ""]

InitRace ==
    /\ \E names \in SUBSET {String(New(t, h)) : t \in (StartTime - 1)..(StartTime + 1),
                                                h \in RootHashes} :
          /\ Cardinality(names) <= MaxRaceDirs
          /\ dirs = [n \in names |-> "built"]
          /\ active \in {NoEntry, RegularFile} \cup {Symlink(n) : n \in names}
    /\ now = StartTime
    /\ seen = Cardinality(RootHashes)
    /\ removed = {}
    /\ log = <<>>
    /\ input = [NoInput EXCEPT !.fn = "race"]
    /\ output = NoOutput
    /\ \E h1 \in {Hash("a"), Hash("c")} :
       \E p2 \in {Proc("deploy", Hash("b")), Proc("deploy", Hash("c")), Proc("clean", <<>>)} :
          pc = <<Proc("deploy", h1), p2>>

\* process p returns err from the stage it is in
Fail(p, err) == [pc EXCEPT ![p].at = "done", ![p].err = err, ![p].stage = pc[p].at]

\* deps, err := deployment.List(); dep, err := deployment.FindByCommitHash
RaceList(p) ==
    /\ pc[p].at = "list"
    /\ \E deps \in List(dirs, active) :
          LET found == FindByCommitHash(deps, pc[p].h) IN
          pc' = IF found.err = NoErr
                THEN [pc EXCEPT ![p].at = "lstat", ![p].path = "hit",
                                ![p].dep = found.dep,
                                ![p].called = {"activate"}]
                ELSE [pc EXCEPT ![p].at = "fetch", ![p].path = "miss",
                                ![p].dep = New(now, pc[p].h)]
    /\ UNCHANGED <<dirs, active, now, seen, removed, log, input, output>>

\* err = c.fetch(dep)
RaceFetch(p) ==
    /\ pc[p].at = "fetch"
    /\ dirs' = fetch(dirs, pc[p].dep, "ok").dirs
    /\ pc' = [pc EXCEPT ![p].at = "build", ![p].i = 1,
                        ![p].called = pc[p].called \cup {"fetch"}]
    /\ UNCHANGED <<active, now, seen, removed, log, input, output>>

\* one command of c.build(dep): cmd.Dir = dep.String(); cmd.Run() fails when
\* the directory is not there
RaceBuild(p) ==
    /\ pc[p].at = "build"
    /\ IF String(pc[p].dep) \notin DOMAIN dirs
       THEN /\ pc' = [Fail(p, ErrBuild) EXCEPT ![p].called = pc[p].called \cup {"build"}]
            /\ UNCHANGED dirs
       ELSE IF pc[p].i < NumCommands
       THEN /\ pc' = [pc EXCEPT ![p].i = pc[p].i + 1,
                               ![p].called = pc[p].called \cup {"build"}]
            /\ UNCHANGED dirs
       ELSE /\ pc' = [pc EXCEPT ![p].at = "lstat", ![p].i = pc[p].i + 1,
                               ![p].called = pc[p].called \cup {"build", "activate"}]
            /\ dirs' = [dirs EXCEPT ![String(pc[p].dep)] = "built"]
    /\ UNCHANGED <<active, now, seen, removed, log, input, output>>

\* c.activate(dep): link, err := os.Lstat(activeDeploymentSymlinkName)
RaceLstat(p) ==
    /\ pc[p].at = "lstat"
    /\ pc' = IF lstatActive(active, "none") = NoErr
             THEN [pc EXCEPT ![p].at = "remove"]
             ELSE [pc EXCEPT ![p].at = "symlink"]
    /\ UNCHANGED <<dirs, active, now, seen, removed, log, input, output>>

\* c.activate(dep): err = os.Remove(link.Name())
RaceRemove(p) ==
    /\ pc[p].at = "remove"
    /\ LET r == removeActive(active, "none") IN
       /\ active' = r.active
       /\ pc' = IF r.err # NoErr THEN Fail(p, r.err)
                ELSE [pc EXCEPT ![p].at = "symlink"]
    /\ UNCHANGED <<dirs, now, seen, removed, log, input, output>>

\* c.activate(dep): return os.Symlink(...); then c.restart() and, when the
\* deployment was fetched, on to c.clean()
RaceSymlink(p) ==
    /\ pc[p].at = "symlink"
    /\ LET s == symlinkActive(active, pc[p].dep, "none") IN
       /\ active' = s.active
       /\ pc' = IF s.err # NoErr THEN Fail(p, s.err)
                ELSE IF pc[p].path = "miss" THEN [pc EXCEPT ![p].at = "cleanRead"]
                ELSE [pc EXCEPT ![p].at = "done"]
    /\ UNCHANGED <<dirs, now, seen, removed, log, input, output>>

\* c.clean(): activeDep, err := c.getActiveDeployment()
RaceCleanRead(p) ==
    /\ pc[p].at = "cleanRead"
    /\ LET a == getActiveDeployment(active) IN
       pc' = IF a.err # NoErr /\ a.err # ErrNotExist
             THEN [Fail(p, a.err) EXCEPT ![p].called = pc[p].called \cup {"clean"}]
             ELSE [pc EXCEPT ![p].at = "cleanList", ![p].act = a.dep,
                             ![p].called = pc[p].called \cup {"clean"}]
    /\ UNCHANGED <<dirs, active, now, seen, removed, log, input, output>>

\* c.clean(): deps, err := deployment.List() and the slice past
\* keepDeploymentsCount
RaceCleanList(p) ==
    /\ pc[p].at = "cleanList"
    /\ \E deps \in List(dirs, active) :
          pc' = IF Len(deps) <= keepDeploymentsCount
                THEN [pc EXCEPT ![p].at = "done"]
                ELSE [pc EXCEPT ![p].at = "cleanRemove",
                                ![p].todo = SubSeq(deps, keepDeploymentsCount + 1, Len(deps))]
    /\ UNCHANGED <<dirs, active, now, seen, removed, log, input, output>>

\* c.clean(): one round of the loop over deploymentsToRemove
RaceCleanRemove(p) ==
    /\ pc[p].at = "cleanRemove"
    /\ LET r == cleanLoop(dirs, <<Head(pc[p].todo)>>, pc[p].act, 0) IN
       /\ dirs' = r.dirs
       /\ removed' = removed \cup (DOMAIN dirs \ DOMAIN r.dirs)
       /\ pc' = [pc EXCEPT ![p].todo = Tail(pc[p].todo),
                           ![p].at = IF Tail(pc[p].todo) = <<>> THEN "done"
                                     ELSE "cleanRemove",
                           ![p].deleted = pc[p].deleted \cup (DOMAIN dirs \ DOMAIN r.dirs)]
    /\ UNCHANGED <<active, now, seen, log, input, output>>

SpecRace ==
    InitRace /\ [][\/ Tick
                   \/ \E p \in 1..2 :
                         \/ RaceList(p)
                         \/ RaceFetch(p)
                         \/ RaceBuild(p)
                         \/ RaceLstat(p)
                         \/ RaceRemove(p)
                         \/ RaceSymlink(p)
                         \/ RaceCleanRead(p)
                         \/ RaceCleanList(p)
                         \/ RaceCleanRemove(p)]_vars

(***************************************************************************)
(* Properties                                                              *)
(***************************************************************************)
LastCall == log[Len(log)]
HasEvent(trace, e) == \E i \in 1..Len(trace) : trace[i].ev = e
CountEvents(trace, e) == Cardinality({i \in 1..Len(trace) : trace[i].ev = e})
HashOf(n) == Parse(n).dep.CommitHash
TimeOf(n) == Parse(n).dep.CreatedAt
NamesWithHash(ds, h) == {n \in DOMAIN ds : HashOf(n) = h}
NewestWithHash(ds, h) ==
    CHOOSE n \in NamesWithHash(ds, h) : \A m \in NamesWithHash(ds, h) : TimeOf(n) >= TimeOf(m)
\* the number of directories strictly newer than the directory n
NewerThan(ds, n) == Cardinality({m \in DOMAIN ds : TimeOf(m) > TimeOf(n)})

\* C1: after Deploy(h) returns success, on the cache-hit and on the
\* cache-miss path, "active" is a symlink whose target is the canonical name
\* of a directory that exists on disk and whose commit hash is h
DeploySuccessActivates ==
    (Len(log) > 0 /\ LastCall.op = "deploy" /\ LastCall.err = NoErr) =>
        /\ active.kind = "symlink"
        /\ active.target \in DOMAIN dirs
        /\ Parse(active.target).err = NoErr
        /\ String(Parse(active.target).dep) = active.target
        /\ HashOf(active.target) = LastCall.h

\* a successful cache-miss Deploy whose retention sweep deleted directories
\* and kept the new deployment although it was listed beyond the window
WitnessDeploySuccess ==
    /\ Len(log) > 0 /\ LastCall.op = "deploy" /\ LastCall.err = NoErr
    /\ LastCall.trace[1].ev = "fetch"
    /\ removed # {}
    /\ active = Symlink(LastCall.trace[1].name)
    /\ Cardinality(DOMAIN dirs) = keepDeploymentsCount + 1

\* C2: starting from an empty working root, after any sequence of Deploy,
\* Rollback and Clean calls, whenever the active symlink exists the directory
\* it targets exists
ActiveTargetExists ==
    active.kind = "symlink" => active.target \in DOMAIN dirs

\* a command has just deleted a directory while an active symlink exists
WitnessActiveSurvives ==
    /\ removed # {}
    /\ active.kind = "symlink"
    /\ Cardinality(DOMAIN dirs) >= keepDeploymentsCount

\* the call a step records
NewCall == log'[Len(log')]
CleanReturnsOk == log' # log /\ NewCall.op = "clean" /\ NewCall.err = NoErr
RollbackReturns == log' # log /\ NewCall.op = "rollback"
DeployReturns == log' # log /\ NewCall.op = "deploy"

\* the sets of keepDeploymentsCount directories of which none is older than
\* a directory outside the set
NewestSets(ds) ==
    {T \in SUBSET DOMAIN ds :
        /\ Cardinality(T) = keepDeploymentsCount
        /\ \A n \in T : \A m \in DOMAIN ds \ T : TimeOf(n) >= TimeOf(m)}

\* C3: a Clean that returns success leaves on disk exactly the
\* keepDeploymentsCount newest deployments by CreatedAt plus the active
\* deployment if it is not among them; with at most keepDeploymentsCount
\* deployments listed it removes nothing
CleanRetention ==
    [][CleanReturnsOk =>
         /\ \A n \in DOMAIN dirs' : n \in DOMAIN dirs /\ dirs'[n] = dirs[n]
         /\ active' = active
         /\ IF Cardinality(DOMAIN dirs) <= keepDeploymentsCount
            THEN dirs' = dirs
            ELSE \E T \in NewestSets(dirs) :
                     DOMAIN dirs' = T \cup ({active.target} \cap DOMAIN dirs)]_vars

\* a successful Clean that deleted a directory and kept an active deployment
\* older than keepDeploymentsCount others
WitnessCleanRetention ==
    /\ Len(log) > 0 /\ LastCall.op = "clean" /\ LastCall.err = NoErr
    /\ removed # {}
    /\ active.kind = "symlink" /\ active.target \in DOMAIN dirs
    /\ NewerThan(dirs, active.target) >= keepDeploymentsCount

\* the case of C4: a successful Clean that listed 5 deployments of which the
\* last, the oldest, is the active one
CleanFiveActiveOldest ==
    /\ CleanReturnsOk
    /\ Len(NewCall.deps) = 5
    /\ active = Symlink(String(NewCall.deps[5]))

\* C4 as stated: with 5 deployments of which the 5th of the listing is active,
\* Clean removes exactly 2 deployments and leaves 4 on disk
CleanRemovesTwoLeavesFour ==
    [][CleanFiveActiveOldest =>
         /\ Cardinality(removed') = 2
         /\ Cardinality(DOMAIN dirs') = 4]_vars

\* C4: with 5 deployments of which the 5th of the listing is active, Clean
\* removes exactly one deployment, the 4th of the listing, and leaves 4 on
\* disk: the 3 newest and the active one
CleanRemovesOneLeavesFour ==
    [][CleanFiveActiveOldest =>
         /\ removed' = {String(NewCall.deps[4])}
         /\ DOMAIN dirs' = {String(NewCall.deps[i]) : i \in {1, 2, 3, 5}}
         /\ Cardinality(DOMAIN dirs') = 4
         /\ active' = active]_vars

\* a successful Clean over 5 deployments with the 5th active has returned
WitnessCleanFive ==
    /\ Len(log) > 0 /\ LastCall.op = "clean" /\ LastCall.err = NoErr
    /\ Len(LastCall.deps) = 5
    /\ active = Symlink(String(LastCall.deps[5]))
    /\ Cardinality(removed) = 1

\* the positions of the listing that hold the target of the active symlink
ActivePositions(deps) == {i \in 1..Len(deps) : String(deps[i]) = active.target}

\* C5: a Rollback called with the active deployment at position i of the
\* newest-to-oldest listing, i not the last position, fails only on a
\* filesystem fault, and on success the active symlink targets the deployment
\* at position i + 1; no directory is touched
RollbackToPrevious ==
    [][RollbackReturns =>
         \A i \in ActivePositions(NewCall.deps) :
             i < Len(NewCall.deps) =>
                 /\ NewCall.err \in {NoErr, EIO}
                 /\ NewCall.err = NoErr =>
                        active' = Symlink(String(NewCall.deps[i + 1]))
                 /\ dirs' = dirs]_vars

\* a successful Rollback from the second to the third of at least 4 deployments
WitnessRollback ==
    /\ Len(log) > 0 /\ LastCall.op = "rollback" /\ LastCall.err = NoErr
    /\ Len(LastCall.deps) >= 4
    /\ active = Symlink(String(LastCall.deps[3]))

\* C6: Rollback fails and leaves the active symlink and the directories as
\* they were when no active symlink exists (the error of os.Lstat), when the
\* target of the symlink parses but is no listed deployment
\* (deployment.ErrNotFound) and when the active deployment is the last of the
\* listing (ErrNoPreviousDeployment); a failure to read the working root may
\* come first in the last two cases
RollbackFailures ==
    [][RollbackReturns =>
         /\ active.kind = "none" =>
                /\ NewCall.err = ErrNotExist
                /\ active' = active /\ dirs' = dirs
         /\ ( /\ active.kind = "symlink"
              /\ Parse(active.target).err = NoErr
              /\ \A n \in DOMAIN dirs : Parse(n).dep # Parse(active.target).dep ) =>
                /\ NewCall.err \in {ErrNotFound, EIO}
                /\ NewCall.deps # <<>> => NewCall.err = ErrNotFound
                /\ active' = active /\ dirs' = dirs
         /\ ( /\ active.kind = "symlink"
              /\ Len(NewCall.deps) \in ActivePositions(NewCall.deps) ) =>
                /\ NewCall.err = ErrNoPreviousDeployment
                /\ active' = active /\ dirs' = dirs]_vars

\* a Rollback has failed with deployment.ErrNotFound on a symlink whose target
\* is the name of a deployment that is not on disk
WitnessRollbackFailure ==
    /\ Len(log) > 0 /\ LastCall.op = "rollback" /\ LastCall.err = ErrNotFound
    /\ active.kind = "symlink" /\ Parse(active.target).err = NoErr
    /\ active.target \notin DOMAIN dirs
    /\ Cardinality(DOMAIN dirs) >= 2

\* the events from position k on are those of one restart call
RestartsAt(t, k) ==
    /\ Len(t) >= k /\ t[k].ev = "restart"
    /\ \A j \in (k + 1)..Len(t) : t[j].ev = "systemctl"

\* C7: a Deploy(h) that finds a directory with commit hash h fetches nothing,
\* runs no build command and no retention sweep and touches no directory; once
\* the listing is read it activates the newest deployment with hash h, and
\* when the activation succeeds it invokes restart next and nothing else
DeployCacheHit ==
    [][(DeployReturns /\ NamesWithHash(dirs, NewCall.h) # {}) =>
         LET t == NewCall.trace
             newest == NewestWithHash(dirs, NewCall.h)
         IN /\ ~HasEvent(t, "fetch") /\ ~HasEvent(t, "run") /\ ~HasEvent(t, "clean")
            /\ dirs' = dirs
            /\ t = <<>> => NewCall.err = EIO /\ active' = active
            /\ t # <<>> => t[1] = Ev("activate", newest, 0)
            /\ Len(t) = 1 => NewCall.err = EIO
            /\ Len(t) > 1 =>
                   /\ RestartsAt(t, 2)
                   /\ NewCall.err \in {NoErr, ErrRestart}
                   /\ active' = Symlink(newest)]_vars

\* a successful cache-hit Deploy(h) with two directories of hash h on disk has
\* moved the active symlink to the newer one and restarted
WitnessDeployCacheHit ==
    /\ Len(log) > 0 /\ LastCall.op = "deploy" /\ LastCall.err = NoErr
    /\ Cardinality(NamesWithHash(dirs, LastCall.h)) >= 2
    /\ removed = {}
    /\ LastCall.trace[1].ev = "activate"
    /\ Len(LastCall.trace) = 3 /\ LastCall.trace[3].ev = "systemctl"
    /\ active = Symlink(NewestWithHash(dirs, LastCall.h))

\* a successful cache-miss Deploy(h) at position i of the log, directly
\* followed by another Deploy(h)
DeployedTwice(i) ==
    /\ i < Len(log)
    /\ log[i].op = "deploy" /\ log[i].err = NoErr
    /\ log[i].trace[1].ev = "fetch"
    /\ log[i + 1].op = "deploy" /\ log[i + 1].h = log[i].h

\* C8: of two Deploy(h) calls in a row, the first a successful cache miss, the
\* second fetches nothing and runs no build command, so that the two calls
\* fetch once and run each build command once; the second call activates the
\* directory the first created, restarts, and leaves one directory of hash h
DeployTwiceBuildsOnce ==
    \A i \in 1..Len(log) :
        DeployedTwice(i) =>
            LET t1 == log[i].trace
                t2 == log[i + 1].trace
                created == t1[1].name
            IN /\ CountEvents(t1 \o t2, "fetch") = 1
               /\ CountEvents(t1 \o t2, "run") = NumCommands
               /\ ~HasEvent(t2, "clean")
               /\ t2 # <<>> => t2[1] = Ev("activate", created, 0)
               /\ log[i + 1].err = NoErr =>
                      RestartsAt(t2, 2)
               /\ i + 1 = Len(log) =>
                      /\ NamesWithHash(dirs, log[i].h) = {created}
                      /\ removed = {}
                      /\ log[i + 1].err = NoErr => active = Symlink(created)

\* two successful Deploy(h) calls in a row, the second while another
\* deployment was active
WitnessDeployTwice ==
    /\ Len(log) = 3
    /\ log[1].op = "deploy" /\ log[1].err = NoErr
    /\ DeployedTwice(2)
    /\ log[2].h # log[1].h
    /\ log[3].err = NoErr

\* C9 as stated: the active symlink never targets a deployment directory
\* whose build failed
FailedBuildNeverActive ==
    (active.kind = "symlink" /\ active.target \in DOMAIN dirs) =>
        dirs[active.target] # "failed"

\* C10 as stated: a Deploy(h) that follows a Deploy(h) whose build failed and
\* that reads the listing starts with a fetch and runs the first build
\* command before it activates anything
RedeployRebuilds ==
    \A i \in 1..Len(log) :
        ( /\ i < Len(log)
          /\ log[i].op = "deploy" /\ log[i].err = ErrBuild
          /\ log[i + 1].op = "deploy" /\ log[i + 1].h = log[i].h
          /\ log[i + 1].trace # <<>> ) =>
            LET t == log[i + 1].trace IN
            /\ t[1].ev = "fetch"
            /\ \A k \in 1..Len(t) :
                   t[k].ev = "activate" =>
                       \E j \in 1..(k - 1) : t[j].ev = "run" /\ t[j].i = 1

\* a Deploy that found no directory for its commit hash
MissCall(c) == c.op = "deploy" /\ c.trace # <<>> /\ c.trace[1].ev = "fetch"

\* the stage of Deploy an event belongs to
StageRank(e) ==
    CASE e.ev = "fetch" -> 1
      [] e.ev = "run" -> 2
      [] e.ev = "activate" -> 3
      [] e.ev \in {"restart", "systemctl"} -> 4
      [] OTHER -> 5

\* C11: the steps of a cache-miss Deploy are in the stage order fetch, build,
\* activate, restart, clean, every stage entered at most once and activate
\* only after all build commands; a successful call runs all five stages, the
\* retention sweep after the restart
DeployStageOrder ==
    \A i \in 1..Len(log) :
        MissCall(log[i]) =>
            LET t == log[i].trace
                name == t[1].name
                n == NumCommands
            IN /\ \A j \in 1..Len(t) : \A k \in (j + 1)..Len(t) :
                      StageRank(t[j]) <= StageRank(t[k])
               /\ CountEvents(t, "fetch") = 1 /\ CountEvents(t, "activate") <= 1
               /\ CountEvents(t, "restart") <= 1 /\ CountEvents(t, "clean") <= 1
               /\ HasEvent(t, "activate") => CountEvents(t, "run") = n
               /\ HasEvent(t, "clean") => HasEvent(t, "restart")
               /\ HasEvent(t, "restart") => HasEvent(t, "activate")
               /\ log[i].err = NoErr =>
                      /\ Len(t) >= n + 4
                      /\ \A j \in 1..n : t[1 + j] = Ev("run", name, j)
                      /\ t[n + 2] = Ev("activate", name, 0)
                      /\ t[n + 3].ev = "restart"
                      /\ \E k \in {n + 4, n + 5} :
                             /\ k <= Len(t) /\ t[k].ev = "clean"
                             /\ k = n + 5 => t[n + 4].ev = "systemctl"
                             /\ \A j \in (k + 1)..Len(t) : t[j].ev = "remove"

\* a successful cache-miss Deploy that restarted a configured unit and whose
\* retention sweep deleted a directory
WitnessDeployStages ==
    /\ Len(log) > 0 /\ MissCall(LastCall) /\ LastCall.err = NoErr
    /\ HasEvent(LastCall.trace, "systemctl")
    /\ HasEvent(LastCall.trace, "remove")
    /\ removed # {}

\* C12: the build commands a Deploy runs are the commands 1, 2, ... in list
\* order, each in the directory of the new deployment; a build error ends
\* the call right after the command that failed, names that command, and no
\* later command runs
BuildStopsAtFirstFailure ==
    \A i \in 1..Len(log) :
        log[i].op = "deploy" =>
            LET t == log[i].trace
                k == CountEvents(t, "run")
            IN /\ k <= NumCommands
               /\ k > 0 => MissCall(log[i])
               /\ \A j \in 1..k : t[1 + j] = Ev("run", t[1].name, j)
               /\ (log[i].err = ErrBuild) <=> (log[i].cmd # 0)
               /\ log[i].err = ErrBuild =>
                      /\ k >= 1 /\ log[i].cmd = k
                      /\ Len(t) = 1 + k
               /\ (MissCall(log[i]) /\ log[i].err # ErrBuild /\ Len(t) > 1) =>
                      k = NumCommands

\* a Deploy whose first build command failed: the second did not run
WitnessBuildStops ==
    /\ Len(log) > 0 /\ LastCall.op = "deploy" /\ LastCall.err = ErrBuild
    /\ LastCall.cmd = 1 /\ NumCommands > 1
    /\ Len(LastCall.trace) = 2
    /\ LastCall.trace[2] = Ev("run", LastCall.trace[1].name, 1)
    /\ LastCall.trace[1].name \in DOMAIN dirs

\* the name a call activated
Activated(t) == t[CHOOSE k \in 1..Len(t) : t[k].ev = "activate"].name

\* C13: a Deploy that returns an error stopped at the stage that failed and
\* undid nothing: after a fetch or build error nothing later ran and the
\* active entry is as before; after an activate error no restart ran; after a
\* restart error the active symlink is on the new deployment and no
\* retention sweep ran; after a sweep error the symlink stays on the new
\* deployment; no directory that existed before the call has changed unless
\* the sweep deleted it
DeployAbortsAtFailure ==
    [][(DeployReturns /\ NewCall.err # NoErr) =>
         LET c == NewCall
             t == c.trace
             last == t[Len(t)]
         IN /\ \A n \in DOMAIN dirs \ removed' : n \in DOMAIN dirs' /\ dirs'[n] = dirs[n]
            /\ removed' # {} => HasEvent(t, "remove")
            /\ t = <<>> => c.err = EIO /\ active' = active /\ dirs' = dirs
            /\ c.err \in {ErrClone, ErrCheckout} =>
                   /\ Len(t) = 1 /\ last.ev = "fetch"
                   /\ active' = active
            /\ c.err = ErrCheckout => last.name \in DOMAIN dirs'
            /\ c.err = ErrBuild =>
                   /\ last.ev = "run"
                   /\ active' = active
                   /\ last.name \in DOMAIN dirs'
            /\ (t # <<>> /\ last.ev = "activate") =>
                   /\ c.err = EIO
                   /\ active' \in {active, NoEntry}
            /\ c.err = ErrRestart =>
                   /\ last.ev = "systemctl"
                   /\ ~HasEvent(t, "clean") /\ removed' = {}
                   /\ active' = Symlink(Activated(t))
            /\ HasEvent(t, "clean") =>
                   /\ last.ev \in {"clean", "remove"}
                   /\ active' = Symlink(Activated(t))]_vars

\* a cache-miss Deploy whose restart failed: the symlink has moved from
\* another deployment to the new one and the directories are all there
WitnessDeployAborts ==
    /\ Len(log) > 0 /\ MissCall(LastCall) /\ LastCall.err = ErrRestart
    /\ LastCall.before.kind = "symlink"
    /\ active = Symlink(LastCall.trace[1].name)
    /\ LastCall.before # active
    /\ Cardinality(DOMAIN dirs) > keepDeploymentsCount

\* the activate call of a recorded command returned nil: the command went on
\* after it or returned nil itself
ActivateSucceeded(c) ==
    \E k \in 1..Len(c.trace) :
        c.trace[k].ev = "activate" /\ (k < Len(c.trace) \/ c.err = NoErr)

\* C14: when an entry of any kind exists at the name "active", a successful
\* activate leaves a symlink there whose target is the canonical name of the
\* deployment it was called with
ActivateReplaces ==
    [][(log' # log /\ ActivateSucceeded(NewCall) /\ active.kind # "none") =>
         /\ NewCall.before = active
         /\ active' = Symlink(Activated(NewCall.trace))
         /\ Parse(Activated(NewCall.trace)).err = NoErr
         /\ String(Parse(Activated(NewCall.trace)).dep) = active'.target]_vars

\* a successful Deploy has replaced a regular file at the name "active"
WitnessActivateReplaces ==
    /\ Len(log) > 0 /\ LastCall.op = "deploy" /\ LastCall.err = NoErr
    /\ LastCall.before = RegularFile
    /\ active = Symlink(Activated(LastCall.trace))

\* C15: Rollback takes no step but one activate: it never restarts the unit,
\* whether it succeeds or fails
RollbackNeverRestarts ==
    \A i \in 1..Len(log) :
        log[i].op = "rollback" =>
            /\ ~HasEvent(log[i].trace, "restart")
            /\ ~HasEvent(log[i].trace, "systemctl")
            /\ Len(log[i].trace) <= 1
            /\ log[i].err = NoErr =>
                   Len(log[i].trace) = 1 /\ log[i].trace[1].ev = "activate"

\* a successful Rollback has moved the active symlink
WitnessRollbackNoRestart ==
    /\ Len(log) > 0 /\ LastCall.op = "rollback" /\ LastCall.err = NoErr
    /\ LastCall.before.kind = "symlink" /\ LastCall.before # active
    /\ active = Symlink(LastCall.trace[1].name)

Returned(fn) == input.fn = fn /\ output.done
HasUnderscore(h) == \E i \in 1..Len(h) : h[i] = "_"

ValidSegments(segs) ==
    /\ Len(segs) = 3
    /\ segs[1] = <<"m", "f", "d">>
    /\ segs[2] \in DOMAIN IntValues
    /\ Len(segs[3]) = HashLen

\* C17: Parse returns no error exactly for the texts of 3 segments separated
\* by '_' of which the first is "mfd", the second a text strconv.Atoi
\* converts and the third of length 40, whatever its characters, and then
\* returns that integer and that segment; for every other text it returns
\* ErrInvalid and the zero Deployment
ParseAcceptsExactly ==
    Returned("Parse") =>
        /\ input.text = Join(input.segs)
        /\ (output.err = NoErr) <=> ValidSegments(input.segs)
        /\ ValidSegments(input.segs) =>
               output.dep = New(IntValues[input.segs[2]], input.segs[3])
        /\ ~ValidSegments(input.segs) =>
               output.err = ErrInvalid /\ output.dep = ZeroDeployment

\* Parse has accepted a name whose timestamp has a sign and whose hash is 40
\* characters that are no hexadecimal digits
WitnessParseAccepts ==
    /\ Returned("Parse")
    /\ input.segs = << <<"m", "f", "d">>, <<"+", "7">>, MixedHash >>
    /\ output.err = NoErr
    /\ output.dep = New(7, MixedHash)

DistinctTimes(l) ==
    \A i \in 1..Len(l) : \A j \in 1..Len(l) : l[i].CreatedAt = l[j].CreatedAt => i = j

\* C18: SortNewestToOldest called with deployments of pairwise distinct
\* timestamps returns a list of the same length that holds every one of
\* them, in strictly descending order of CreatedAt, and leaves the slice of
\* the caller as it was
SortStrictlyDescending ==
    [][(input.fn = "SortNewestToOldest" /\ ~output.done /\ output'.done
          /\ DistinctTimes(input.list)) =>
         LET out == output'.list IN
         /\ input' = input
         /\ Len(out) = Len(input.list)
         /\ \A i \in 1..Len(input.list) : \E j \in 1..Len(out) : out[j] = input.list[i]
         /\ \A i \in 1..Len(out) : \A j \in (i + 1)..Len(out) :
                out[i].CreatedAt > out[j].CreatedAt]_vars

\* three deployments given oldest first have been returned newest first
WitnessSort ==
    /\ Returned("SortNewestToOldest")
    /\ Len(input.list) = 3
    /\ input.list[1].CreatedAt < input.list[2].CreatedAt
    /\ input.list[2].CreatedAt < input.list[3].CreatedAt
    /\ output.list = <<input.list[3], input.list[2], input.list[1]>>

\* the positions of the entries that are directories with a name Parse accepts
Accepted(files) ==
    {i \in 1..Len(files) : files[i].isDir /\ Parse(files[i].name).err = NoErr}
\* the k-th smallest member of a set of positions
Kth(S, k) == CHOOSE i \in S : Cardinality({j \in S : j < i}) = k - 1

\* C19: FromFiles returns one deployment for every entry that is a directory
\* and whose name Parse accepts, in the order of the entries, and nothing
\* for any other entry; it reports no error
FromFilesKeepsValidDirs ==
    Returned("FromFiles") =>
        /\ output.err = NoErr
        /\ Len(output.list) = Cardinality(Accepted(input.files))
        /\ \A k \in 1..Len(output.list) :
               output.list[k] = Parse(input.files[Kth(Accepted(input.files), k)].name).dep

\* of three entries, a regular file with the name of a deployment, a
\* directory with an invalid name and a deployment directory, one is kept
WitnessFromFiles ==
    /\ Returned("FromFiles")
    /\ Len(input.files) = 3
    /\ \E i \in 1..3 : ~input.files[i].isDir /\ Parse(input.files[i].name).err = NoErr
    /\ \E i \in 1..3 : input.files[i].isDir /\ Parse(input.files[i].name).err # NoErr
    /\ Len(output.list) = 1

SortedNewestFirst(l) ==
    \A i \in 1..Len(l) : \A j \in (i + 1)..Len(l) : l[i].CreatedAt >= l[j].CreatedAt

\* C20: FindByCommitHash returns ErrNotFound exactly when no entry of the
\* list has the commit hash, and otherwise the first entry that has it; in a
\* list ordered newest to oldest no entry with that hash is newer than the
\* one returned
FindFirstMatch ==
    Returned("FindByCommitHash") =>
        LET l == input.list
            matches == {i \in 1..Len(l) : l[i].CommitHash = input.hash}
        IN /\ output.err \in {NoErr, ErrNotFound}
           /\ (output.err = ErrNotFound) <=> (matches = {})
           /\ matches = {} => output.dep = ZeroDeployment
           /\ matches # {} =>
                  /\ output.dep = l[Kth(matches, 1)]
                  /\ SortedNewestFirst(l) =>
                         \A i \in matches : output.dep.CreatedAt >= l[i].CreatedAt

\* in a list ordered newest to oldest two deployments of different age have
\* the commit hash, after a newer one with another hash: the newer of the
\* two is returned
WitnessFind ==
    /\ Returned("FindByCommitHash")
    /\ Len(input.list) = 3 /\ SortedNewestFirst(input.list)
    /\ input.list[1].CommitHash # input.hash
    /\ input.list[2].CommitHash = input.hash /\ input.list[3].CommitHash = input.hash
    /\ input.list[2].CreatedAt > input.list[3].CreatedAt
    /\ output.err = NoErr /\ output.dep = input.list[2]

(***************************************************************************)
(* The list command                                                        *)
(***************************************************************************)
ListReturns == log' # log /\ NewCall.op = "list"

\* C21: the list command changes nothing; when it succeeds it prints one line
\* for every deployment directory, newest first, and marks as active exactly
\* the lines of the entry whose canonical name is the target of the active
\* symlink; with nothing at the name "active" it fails only if the working
\* directory cannot be read and marks no line; with a symlink whose target is
\* not a deployment identity it returns an error and prints no line
ListMarksActive ==
    [][ListReturns =>
         /\ dirs' = dirs /\ active' = active
         /\ NewCall.err = NoErr =>
                /\ Len(NewCall.lines) = Cardinality(DOMAIN dirs)
                /\ {String(NewCall.deps[i]) : i \in 1..Len(NewCall.deps)} = DOMAIN dirs
                /\ SortedNewestFirst(NewCall.deps)
                /\ \A i \in 1..Len(NewCall.lines) :
                       /\ NewCall.lines[i].hash = NewCall.deps[i].CommitHash
                       /\ NewCall.lines[i].active <=>
                              active = Symlink(String(NewCall.deps[i]))
         /\ active.kind = "none" =>
                /\ NewCall.err \in {NoErr, EIO}
                /\ \A i \in 1..Len(NewCall.lines) : ~NewCall.lines[i].active
         /\ (active.kind = "symlink" /\ Parse(active.target).err # NoErr) =>
                /\ NewCall.err \in {ErrInvalid, EIO}
                /\ NewCall.lines = <<>>]_vars

\* a list that marked one of two deployments of the same commit
WitnessListMarks ==
    /\ Len(log) > 0 /\ LastCall.op = "list" /\ LastCall.err = NoErr
    /\ \E i, j \in 1..Len(LastCall.lines) :
           /\ LastCall.lines[i].active /\ ~LastCall.lines[j].active
           /\ LastCall.lines[i].hash = LastCall.lines[j].hash

(***************************************************************************)
(* restart without a configured unit                                       *)
(***************************************************************************)
\* the event that follows the restart event of a trace, "" when it is the last
AfterRestart(t) ==
    LET k == CHOOSE i \in 1..Len(t) : t[i].ev = "restart"
    IN IF k < Len(t) THEN t[k + 1].ev ELSE ""

\* C24: with no systemd unit configured restart returns nil and runs no
\* systemctl: the restart command succeeds having done nothing, a Deploy
\* that finds the commit on disk succeeds once activate has, and a Deploy
\* that built the commit goes straight on to the retention sweep
RestartWithoutUnit ==
    \A i \in 1..Len(log) :
        log[i].unit = "" =>
            /\ HasEvent(log[i].trace, "restart")
            /\ ~HasEvent(log[i].trace, "systemctl")
            /\ log[i].err # ErrRestart
            /\ log[i].op = "restart" =>
                   log[i].err = NoErr /\ Len(log[i].trace) = 1
            /\ (log[i].op = "deploy" /\ ~MissCall(log[i])) =>
                   log[i].err = NoErr /\ AfterRestart(log[i].trace) = ""
            /\ MissCall(log[i]) => AfterRestart(log[i].trace) = "clean"

\* a Deploy that built a commit and ran every stage with no unit configured
WitnessRestartWithoutUnit ==
    /\ Len(log) > 0 /\ MissCall(LastCall) /\ LastCall.err = NoErr
    /\ LastCall.unit = ""
    /\ HasEvent(LastCall.trace, "clean")
    /\ active = Symlink(Activated(LastCall.trace))

(***************************************************************************)
(* activate: nothing at the name, and failures before the new symlink      *)
(***************************************************************************)
ActivateCalled == log' # log /\ HasEvent(NewCall.trace, "activate")

\* C27: when nothing exists at the name "active", activate removes nothing
\* and creates the symlink: it succeeds unless os.Lstat or os.Symlink itself
\* fails, and the missing entry is never the error it returns
ActivateCreatesWhenMissing ==
    [][(ActivateCalled /\ active.kind = "none") =>
         /\ NewCall.fault \in {"", "lstat", "symlink"}
         /\ NewCall.err # ErrNotExist
         /\ NewCall.fault = "" =>
                /\ ActivateSucceeded(NewCall)
                /\ active' = Symlink(Activated(NewCall.trace))
         /\ NewCall.fault # "" =>
                /\ NewCall.err = EIO
                /\ active' = NoEntry]_vars

\* a Deploy on a working root with nothing at the name "active" has created
\* the symlink
WitnessActivateCreates ==
    /\ Len(log) > 0 /\ LastCall.op = "deploy" /\ LastCall.err = NoErr
    /\ LastCall.before = NoEntry
    /\ LastCall.fault = ""
    /\ active = Symlink(Activated(LastCall.trace))

\* C28: when os.Lstat fails with an error other than not-exist, or os.Remove
\* of the existing entry fails, activate returns that error, nothing runs
\* after it and no new symlink is created: the entry at "active" is as before
ActivateFailsBeforeSymlink ==
    [][(log' # log /\ NewCall.fault \in {"lstat", "remove"}) =>
         /\ NewCall.err = EIO
         /\ NewCall.trace[Len(NewCall.trace)].ev = "activate"
         /\ active' = active
         /\ NewCall.fault = "remove" => active.kind # "none"]_vars

\* a Rollback whose os.Remove failed has left the symlink on the deployment
\* that was active
WitnessActivateRemoveFails ==
    /\ Len(log) > 0 /\ LastCall.op = "rollback" /\ LastCall.fault = "remove"
    /\ LastCall.err = EIO
    /\ active.kind = "symlink" /\ active = LastCall.before
    /\ active.target # Activated(LastCall.trace)

(***************************************************************************)
(* clean and the active entry                                              *)
(***************************************************************************)
CleanReturns == log' # log /\ NewCall.op = "clean"

\* C30: with nothing at the name "active" the clean command fails only on a
\* filesystem error and, when it succeeds, leaves exactly the
\* keepDeploymentsCount newest deployments (all of them when there are no
\* more); with a regular file at the name or a symlink whose target is not a
\* deployment identity it returns the error of reading it and deletes nothing
CleanMissingOrInvalidActive ==
    [][CleanReturns =>
         /\ active.kind = "none" =>
                /\ NewCall.err \in {NoErr, EIO}
                /\ NewCall.err = NoErr =>
                       IF Cardinality(DOMAIN dirs) <= keepDeploymentsCount
                       THEN dirs' = dirs
                       ELSE DOMAIN dirs' \in NewestSets(dirs)
         /\ (active.kind = "file"
              \/ (active.kind = "symlink" /\ Parse(active.target).err # NoErr)) =>
                /\ NewCall.err = IF active.kind = "file" THEN EINVAL ELSE ErrInvalid
                /\ dirs' = dirs
                /\ ~HasEvent(NewCall.trace, "remove")]_vars

\* a clean command that found a symlink to something that is no deployment
\* identity and left more than keepDeploymentsCount directories alone
WitnessCleanInvalidActive ==
    /\ Len(log) > 0 /\ LastCall.op = "clean" /\ LastCall.err = ErrInvalid
    /\ LastCall.before = Symlink(GarbageTarget)
    /\ Cardinality(DOMAIN dirs) > keepDeploymentsCount
    /\ removed = {}

\* a clean command that found nothing at the name "active" and deleted two
\* directories
WitnessCleanMissingActive ==
    /\ Len(log) > 0 /\ LastCall.op = "clean" /\ LastCall.err = NoErr
    /\ LastCall.before = NoEntry
    /\ Cardinality(removed) = 2
    /\ Cardinality(DOMAIN dirs) = keepDeploymentsCount

(***************************************************************************)
(* The process: deploy and resolve, rollback, the exit code                *)
(***************************************************************************)
MainReturns == input.fn = "main" /\ ~output.done /\ output'.done
ConfigLoads == ReadFile(input.file).err = NoErr
Typed(cmd) == Len(input.args) > 0 /\ input.args[1] = cmd

\* the lines of a kind among the lines printed
LinesOf(out, kind) == {i \in 1..Len(out) : out[i].kind = kind}

\* C22: deploy <revision> creates no directory and sets no symlink target
\* but the canonical name made of the clock reading and the full commit hash
\* that Resolve returned and run printed; the revision as typed is no part
\* of a name; resolve, and a deploy whose Resolve fails, change nothing in
\* the working root
DeployNamesFromCommitHash ==
    [][(MainReturns /\ (Typed("deploy") \/ Typed("resolve"))) =>
         LET out == output'.stdout
             created == DOMAIN dirs' \ DOMAIN dirs
         IN /\ (Typed("resolve") \/ LinesOf(out, "resolved") = {}) =>
                   dirs' = dirs /\ active' = active
            /\ \A i \in LinesOf(out, "resolved") :
                   /\ out[i].rev = Revision(input.args)
                   /\ Len(out[i].hash) = HashLen
                   /\ out[i].hash \in RemoteCommits
                   /\ \A n \in created :
                          /\ Split(n) = <<<<"m", "f", "d">>, Itoa(now), out[i].hash>>
                          /\ Revision(input.args) # out[i].hash =>
                                 Split(n)[3] # Revision(input.args)
                   /\ (active' # active /\ active'.kind = "symlink") =>
                          /\ active'.target \in DOMAIN dirs'
                          /\ Split(active'.target)[3] = out[i].hash]_vars

\* deploy main has built and activated the commit the branch points to
WitnessDeployBranch ==
    /\ input.fn = "main" /\ output.done /\ output.err = NoErr
    /\ input.args = <<"deploy", BranchMain>>
    /\ removed = {}
    /\ active.kind = "symlink"
    /\ active.target = String(New(now, input.remote.head))
    /\ active.target \in DOMAIN dirs
    /\ dirs[active.target] = "built"

ExitCodeAndMessage ==
    (input.fn = "main" /\ output.done) =>
        /\ output.code \in {0, 1}
        /\ output.code = 0 <=> output.err = NoErr
        /\ output.code = 0 => LinesOf(output.stdout, "error") = {}
        /\ output.code = 1 =>
               /\ LinesOf(output.stdout, "error") = {Len(output.stdout)}
               /\ output.stdout[Len(output.stdout)].err = output.err
        /\ ~ConfigLoads =>
               /\ output.code = 1
               /\ output.err = ErrReadingConfiguration
               /\ output.called = ""

\* a deploy whose clone failed has exited with code 1 after printing the
\* line of Resolve and the error
WitnessExitCodeOne ==
    /\ input.fn = "main" /\ output.done /\ Typed("deploy")
    /\ output.code = 1 /\ output.err = ErrClone
    /\ Len(output.stdout) = 2
    /\ output.stdout[1].kind = "resolved"
    /\ output.stdout[2] = Line("error", <<>>, <<>>, ErrClone, FALSE)

(***************************************************************************)
(* config.Read                                                             *)
(***************************************************************************)
IsSet(key) == key \in input.doc.set
Present(key) == key \in input.doc.keys

\* C25: for a document that decodes, Read succeeds exactly when repo.url
\* and build.commands are present, password and token are not both set and
\* password is not set without username; when a required key is missing
\* the error names the missing required keys and no other; otherwise
\* password with token gives ErrTokenAndPassword, with or without a
\* username, and password alone without username gives ErrMissingUsername;
\* a failed Read returns the zero Config
ReadSucceedsExactlyWhenValid ==
    (Returned("Read") /\ input.doc.valid) =>
        LET complete == Present("repo.url") /\ Present("build.commands")
            both == IsSet("repo.password") /\ IsSet("repo.token")
            alone == IsSet("repo.password") /\ ~IsSet("repo.username")
        IN /\ output.err = NoErr <=> (complete /\ ~both /\ ~alone)
           /\ ~complete =>
                  /\ output.err = ErrMissingValues
                  /\ {output.missing[i] : i \in 1..Len(output.missing)}
                         = {"repo.url", "build.commands"} \ input.doc.keys
                  /\ Len(output.missing) =
                         Cardinality({"repo.url", "build.commands"} \ input.doc.keys)
           /\ (complete /\ both) => output.err = ErrTokenAndPassword
           /\ (complete /\ alone /\ ~both) => output.err = ErrMissingUsername
           /\ output.err # NoErr => output.cfg = ZeroConfig
           /\ output.err = NoErr => output.cfg = Decoded(input.doc)

\* Read has refused a complete document with a password and a token and no
\* username
WitnessTokenAndPassword ==
    /\ Returned("Read") /\ input.doc.valid
    /\ Present("repo.url") /\ Present("build.commands")
    /\ IsSet("repo.password") /\ IsSet("repo.token") /\ ~IsSet("repo.username")
    /\ output.err = ErrTokenAndPassword

(***************************************************************************)
(* activate is not atomic                                                  *)
(***************************************************************************)
\* C29: once activate has removed the entry it found, and until its
\* os.Symlink returns, nothing exists at the name "active": a command that
\* reads the active entry in that window gets os.ErrNotExist, on which
\* Rollback fails and List and clean go on as if no deployment were active;
\* when os.Symlink then fails, activate returns with nothing at the name;
\* when it succeeds the symlink is on the new deployment
ActivateNotAtomic ==
    /\ (pc.at = "symlink" /\ pc.removed) =>
           active = NoEntry /\ pc.before.kind # "none"
    /\ \A i \in 1..Len(log) :
           (pc.at # "none" /\ log[i].at = "symlink" /\ log[i].removed) =>
               /\ log[i].err = ErrNotExist
               /\ log[i].fails <=> log[i].op = "rollback"
    /\ (pc.at = "done" /\ pc.removed /\ pc.err # NoErr) => active = NoEntry
    /\ (pc.at = "done" /\ pc.err = NoErr) => active = Symlink(String(pc.dep))

\* a List started between os.Remove and os.Symlink of an activate that
\* replaces a symlink has found no active deployment
WitnessActivateWindow ==
    /\ pc.at = "symlink" /\ pc.removed /\ pc.before.kind = "symlink"
    /\ active = NoEntry
    /\ \E i \in 1..Len(log) :
           /\ log[i].op = "list" /\ log[i].at = "symlink" /\ log[i].removed
           /\ log[i].err = ErrNotExist /\ ~log[i].fails

\* an activate whose os.Symlink failed after the old symlink was removed
WitnessActivateLeavesNothing ==
    /\ pc.at = "done" /\ pc.removed /\ pc.err = EIO
    /\ pc.before.kind = "symlink"
    /\ active = NoEntry

(***************************************************************************)
(* clean: order of the deletions, and a deletion that fails                *)
(***************************************************************************)
\* the names of the remove events of a trace, in order
RECURSIVE RemovedNames(_)
RemovedNames(t) ==
    IF t = <<>> THEN <<>>
    ELSE IF Head(t).ev = "remove" THEN <<Head(t).name>> \o RemovedNames(Tail(t))
    ELSE RemovedNames(Tail(t))

\* the names clean is to delete: the entries of the listing beyond the
\* retention window, in the order of the listing, without the active one
RECURSIVE Candidates(_, _, _)
Candidates(deps, i, act) ==
    IF i > Len(deps) THEN <<>>
    ELSE IF act = Symlink(String(deps[i])) THEN Candidates(deps, i + 1, act)
    ELSE <<String(deps[i])>> \o Candidates(deps, i + 1, act)

\* C31: the clean command calls os.RemoveAll on its candidates in the order
\* of the listing, newest first; when every call succeeds all candidates
\* are gone; when one fails clean returns that error at once: the
\* candidates before it are gone, the one that failed and those after it
\* are on disk, and no directory outside the candidates is touched
CleanDeletesInOrder ==
    [][(CleanReturns /\ HasEvent(NewCall.trace, "remove")) =>
         LET rm == RemovedNames(NewCall.trace)
             cands == Candidates(NewCall.deps, keepDeploymentsCount + 1, active)
             gone == DOMAIN dirs \ DOMAIN dirs'
         IN /\ Len(rm) <= Len(cands)
            /\ rm = SubSeq(cands, 1, Len(rm))
            /\ \A i, j \in 1..Len(rm) : i < j => TimeOf(rm[i]) >= TimeOf(rm[j])
            /\ \A n \in DOMAIN dirs' : n \in DOMAIN dirs /\ dirs'[n] = dirs[n]
            /\ NewCall.err \in {NoErr, EIO}
            /\ NewCall.err = NoErr =>
                   /\ rm = cands
                   /\ gone = {cands[i] : i \in 1..Len(cands)}
            /\ NewCall.err = EIO =>
                   /\ gone = {rm[i] : i \in 1..(Len(rm) - 1)}
                   /\ \A i \in Len(rm)..Len(cands) : cands[i] \in DOMAIN dirs']_vars

\* a clean command whose second deletion failed: the first candidate is
\* gone, the second is on disk
WitnessCleanSecondFails ==
    /\ Len(log) > 0 /\ LastCall.op = "clean" /\ LastCall.err = EIO
    /\ Len(RemovedNames(LastCall.trace)) = 2
    /\ removed = {RemovedNames(LastCall.trace)[1]}
    /\ RemovedNames(LastCall.trace)[2] \in DOMAIN dirs

\* a clean command whose first deletion failed: the candidate after it is
\* left on disk
WitnessCleanFirstFails ==
    /\ Len(log) > 0 /\ LastCall.op = "clean" /\ LastCall.err = EIO
    /\ Len(RemovedNames(LastCall.trace)) = 1
    /\ removed = {}
    /\ Cardinality(DOMAIN dirs) = keepDeploymentsCount + 2
    /\ LastCall.before = NoEntry

(***************************************************************************)
(* Parse, then String                                                      *)
(***************************************************************************)
\* C32: for every string s that Parse accepts, Parse(s).String() is s
StringOfParsedIsTheName ==
    (Returned("Parse") /\ output.err = NoErr) => String(output.dep) = input.text

(***************************************************************************)
(* Rollback after Rollback                                                 *)
(***************************************************************************)
\* the index in the listing l of the entry the symlink act points to, 0 when
\* there is none
IndexInListing(l, act) ==
    IF \E i \in 1..Len(l) : act = Symlink(String(l[i]))
    THEN CHOOSE i \in 1..Len(l) : act = Symlink(String(l[i]))
    ELSE 0

Successes(calls) == Cardinality({i \in 1..Len(calls) : calls[i].err = NoErr})

\* C36: with the N deployments of the listing on disk, a Rollback that
\* succeeds moves the active symlink from its index in the listing to the
\* next one; with the symlink on the last entry Rollback changes nothing
\* and, when it can read the directory, returns ErrNoPreviousDeployment,
\* which it returns in no other case and which leaves a deployment active
\* that none is older than; no more than N - 1 calls in a row succeed
RollbackDescends ==
    [][(input.fn = "Rollback" /\ RollbackReturns) =>
         LET l == input.list
             i == IndexInListing(l, active)
         IN /\ NewCall.err = NoErr =>
                   /\ i >= 1 /\ i < Len(l)
                   /\ IndexInListing(l, active') = i + 1
            /\ (i >= 1 /\ i = Len(l)) =>
                   /\ NewCall.err \in {ErrNoPreviousDeployment, EIO}
                   /\ active' = active
            /\ NewCall.err = ErrNoPreviousDeployment =>
                   /\ i = Len(l)
                   /\ \A n \in DOMAIN dirs : TimeOf(active.target) <= TimeOf(n)
            /\ dirs' = dirs
            /\ Len(l) >= 1 => Successes(log') <= Len(l) - 1
            /\ Len(l) = 0 => Successes(log') = 0]_vars

\* with 5 deployments on disk 4 calls of Rollback have succeeded and the
\* fifth has returned ErrNoPreviousDeployment
WitnessRollbackToOldest ==
    /\ input.fn = "Rollback"
    /\ Cardinality(DOMAIN dirs) = 5
    /\ Len(log) = 5
    /\ Successes(log) = 4
    /\ LastCall.err = ErrNoPreviousDeployment
    /\ IndexInListing(input.list, active) = 5

(***************************************************************************)
(* One directory for each commit hash                                      *)
(***************************************************************************)
OneDirectoryPerHash(ds) ==
    \A n1, n2 \in DOMAIN ds : HashOf(n1) = HashOf(n2) => n1 = n2

\* C37: from the empty working root, whatever Deploy, Rollback and Clean
\* calls have run one after the other, no two directories on disk have the
\* same commit hash, and a command creates a directory only for a commit
\* hash that no directory on disk has
NoTwoDirectoriesOfOneHash ==
    [][/\ OneDirectoryPerHash(dirs')
       /\ \A n \in DOMAIN dirs' \ DOMAIN dirs : NamesWithHash(dirs, HashOf(n)) = {}]_vars

\* the four commit hashes have been deployed at two readings of the clock,
\* the sweep of the last Deploy has deleted a directory and the commit hash
\* of that directory is no longer on disk
WitnessSweptHashGone ==
    /\ Cardinality(DOMAIN dirs) >= 3
    /\ seen = 4
    /\ \E n \in DOMAIN dirs : TimeOf(n) > StartTime
    /\ removed # {}
    /\ \A r \in removed : NamesWithHash(dirs, HashOf(r)) = {}

(***************************************************************************)
(* Deploy and then Rollback                                                *)
(***************************************************************************)
\* the names on disk before the last command ran, given what it created
DirsBefore(created) == (DOMAIN dirs \ created) \cup removed

\* the Deploy recorded first was a successful cache miss at a clock reading
\* later than every timestamp on disk, run with the active symlink on the
\* directory that was newer than every other one
DeployedOverNewest ==
    /\ input.fn = "DeployRollback" /\ Len(log) = 1
    /\ MissCall(log[1]) /\ log[1].err = NoErr
    /\ log[1].before.kind = "symlink"
    /\ LET D == log[1].trace[1].name
           A == log[1].before.target
       IN /\ A \in DirsBefore({D})
          /\ \A n \in DirsBefore({D}) : TimeOf(n) < now
          /\ \A n \in DirsBefore({D}) \ {A} : TimeOf(n) < TimeOf(A)

\* C38: with the active deployment A newer than every other directory, after
\* a successful cache-miss Deploy(h) at a clock second later than every
\* timestamp on disk the directory A is still there, and the Rollback that
\* follows finds a previous deployment and, if no filesystem call of it
\* fails, returns success with the active symlink on A
RollbackUndoesDeploy ==
    [][(DeployedOverNewest /\ RollbackReturns) =>
         /\ log[1].before.target \in DOMAIN dirs
         /\ NewCall.err \notin {ErrNoPreviousDeployment, ErrNotFound}
         /\ NewCall.trace = <<Ev("activate", log[1].before.target, 0)>>
               \/ (NewCall.err = EIO /\ NewCall.trace = <<>>)
         /\ NewCall.fault = "" /\ NewCall.trace # <<>> =>
               /\ NewCall.err = NoErr
               /\ active' = log[1].before
         /\ dirs' = dirs]_vars

\* the Deploy made a fourth directory, its sweep deleted the oldest one, and
\* the Rollback after it has put the symlink back
WitnessRollbackUndoesDeploy ==
    /\ input.fn = "DeployRollback" /\ Len(log) = 2
    /\ MissCall(log[1]) /\ log[1].err = NoErr
    /\ log[2].op = "rollback" /\ log[2].err = NoErr
    /\ active = log[1].before
    /\ Cardinality(DOMAIN dirs) = 3
    /\ \A n \in DOMAIN dirs \ {active.target} :
          n = log[1].trace[1].name \/ TimeOf(n) < TimeOf(active.target)
    /\ HasEvent(log[1].trace, "remove")

(***************************************************************************)
(* What Rollback, a Deploy of a commit hash on disk and List leave alone   *)
(***************************************************************************)
\* the step is a Deploy(h) that returns with a directory for h on disk
DeployHitReturns == DeployReturns /\ NamesWithHash(dirs, NewCall.h) # {}

\* C39: Rollback and a Deploy(h) that finds a directory for h create and
\* delete no directory and change the content of none: they fetch nothing,
\* run no build command and no sweep, and the only entry of the working root
\* they can change is the one named active; the list command changes neither
\* a directory nor the active entry
FrameOfRollbackHitAndList ==
    [][/\ (RollbackReturns \/ DeployHitReturns) =>
             /\ dirs' = dirs
             /\ removed' = {}
             /\ \A e \in {"fetch", "run", "clean", "remove"} : ~HasEvent(NewCall.trace, e)
       /\ ListReturns =>
             /\ dirs' = dirs
             /\ active' = active
             /\ removed' = {}]_vars

\* a Deploy of a commit hash on disk has moved the active symlink in a
\* working root of 5 directories, all of which are still there
WitnessHitKeepsFive ==
    /\ log # <<>>
    /\ LastCall.op = "deploy" /\ LastCall.err = NoErr
    /\ ~MissCall(LastCall)
    /\ Cardinality(DOMAIN dirs) = 5
    /\ active # LastCall.before
    /\ active.kind = "symlink" /\ HashOf(active.target) = LastCall.h

\* a Rollback has moved the active symlink in a working root of 5 directories
WitnessRollbackKeepsFive ==
    /\ log # <<>>
    /\ LastCall.op = "rollback" /\ LastCall.err = NoErr
    /\ Cardinality(DOMAIN dirs) = 5
    /\ active # LastCall.before

\* the list command has printed 5 lines
WitnessListKeepsFive ==
    /\ log # <<>>
    /\ LastCall.op = "list" /\ LastCall.err = NoErr
    /\ Len(LastCall.lines) = 5
    /\ Cardinality(DOMAIN dirs) = 5

(***************************************************************************)
(* Two commands at once                                                    *)
(***************************************************************************)
\* process p has looked for its commit hash in this step
Listed(p) == pc[p].at = "list" /\ pc'[p].at # "list"

\* C33: a Deploy(h) takes the fetch path whenever its own listing shows no
\* directory for h, whatever another Deploy(h) is doing at that time: nothing
\* makes it wait or look again, so two of them that list before either has
\* fetched both fetch and both build
DeployLooksOnlyAtItsListing ==
    [][input.fn = "race" =>
         \A p \in 1..2 :
            /\ Listed(p) =>
                  /\ pc'[p].path = "miss" <=> NamesWithHash(dirs, pc[p].h) = {}
                  /\ pc'[p].path = "miss" => pc'[p].at = "fetch"
                  /\ pc'[p].path = "hit" => pc'[p].at = "lstat"
            /\ (pc[p].at = "fetch" /\ pc'[p].at # "fetch") =>
                  /\ pc'[p].at = "build"
                  /\ String(pc[p].dep) \in DOMAIN dirs'
            /\ pc'[p].path = "hit" => pc'[p].called \cap {"fetch", "build"} = {}]_vars

\* both processes ran Deploy of the same commit hash on a root without a
\* directory for it, both took the fetch path, both fetched, ran every build
\* command and activated
WitnessBothFetchAndBuild ==
    /\ input.fn = "race"
    /\ pc[1].h = pc[2].h
    /\ \A p \in 1..2 :
          /\ pc[p].cmd = "deploy" /\ pc[p].path = "miss"
          /\ {"fetch", "build", "activate"} \subseteq pc[p].called
          /\ pc[p].i > NumCommands
          /\ pc[p].stage = ""

\* the two Deploy calls of one commit hash made a directory each
WitnessTwoDirectoriesOfOneHash ==
    /\ input.fn = "race"
    /\ pc[1].h = pc[2].h
    /\ pc[1].dep # pc[2].dep
    /\ \A p \in 1..2 : pc[p].path = "miss" /\ String(pc[p].dep) \in DOMAIN dirs

Dangling == active.kind = "symlink" /\ active.target \notin DOMAIN dirs

\* C34: nothing keeps a clean from deleting what another command is working
\* on.  The directory of a Deploy in its build stage is missing only when the
\* clean of the other process has deleted it, and the active symlink names a
\* missing directory only when a clean that had read another active
\* deployment (or none) has deleted the directory
CleanDeletesUnderOthers ==
    input.fn = "race" =>
        /\ \A p \in 1..2 :
              (pc[p].at = "build" /\ String(pc[p].dep) \notin DOMAIN dirs) =>
                  String(pc[p].dep) \in pc[3 - p].deleted
        /\ Dangling =>
              \E q \in 1..2 : /\ active.target \in pc[q].deleted
                              /\ String(pc[q].act) # active.target
        /\ \A q \in 1..2 : String(pc[q].act) \notin pc[q].deleted

\* process 1 has run its first build command and the clean of process 2 has
\* deleted the directory before the second one
WitnessDeletedWhileBuilding ==
    /\ input.fn = "race"
    /\ pc[1].at = "build" /\ pc[1].i = 2
    /\ String(pc[1].dep) \notin DOMAIN dirs
    /\ String(pc[1].dep) \in pc[2].deleted

\* the Deploy of process 1 has returned success with the active symlink on
\* its deployment, and the clean of process 2 has deleted that directory
WitnessActiveDeleted ==
    /\ input.fn = "race"
    /\ pc[1].at = "done" /\ pc[1].err = NoErr
    /\ active = Symlink(String(pc[1].dep))
    /\ Dangling
    /\ pc[2].at = "done" /\ pc[2].err = NoErr
    /\ active.target \in pc[2].deleted

\* both processes have called activate and both calls have returned
BothActivated ==
    /\ input.fn = "race"
    /\ \A p \in 1..2 : /\ "activate" \in pc[p].called
                        /\ pc[p].at \notin {"lstat", "remove", "symlink"}

\* activate of process p returned nil
ActivateOk(p) == pc[p].stage \notin {"remove", "symlink"}

\* C35: when two calls of activate have run at the same time, their
\* filesystem calls in any order and none failing but for what the other
\* call did, and both have returned, the entry named active is a symlink to
\* the deployment of one of the two calls and at least one of the calls has
\* returned nil
OneOfTwoActive ==
    BothActivated =>
        /\ active.kind = "symlink"
        /\ active.target \in {String(pc[1].dep), String(pc[2].dep)}
        /\ \E p \in 1..2 : ActivateOk(p)
        /\ \A p \in 1..2 : ~ActivateOk(p) => pc[p].err \in {ErrNotExist, EEXIST}

\* one of the two calls found the entry gone when it called os.Remove, the
\* other one has made the symlink
WitnessActivateLoses ==
    /\ BothActivated
    /\ pc[1].dep # pc[2].dep
    /\ \E p \in 1..2 : /\ pc[p].stage = "remove" /\ pc[p].err = ErrNotExist
                        /\ active = Symlink(String(pc[3 - p].dep))

\* both calls returned nil and the symlink is the one process 1 made
WitnessActivateBothOk ==
    /\ BothActivated
    /\ pc[1].dep # pc[2].dep
    /\ \A p \in 1..2 : ActivateOk(p)
    /\ active = Symlink(String(pc[1].dep))

\* one of the two calls found the name taken when it called os.Symlink
WitnessActivateExists ==
    /\ BothActivated
    /\ \E p \in 1..2 : pc[p].stage = "symlink" /\ pc[p].err = EEXIST

====
